---- MODULE Spec2Model ----
(***************************************************************************)
(* tabgen: the concurrent generation pipeline (cmd.Generate and            *)
(* cmd.processTools), the content fingerprint (types.Tool.ContentHash) and *)
(* the help-text extractor (parser.Parser).                                *)
(*                                                                         *)
(* Strings that the code only compares or copies are TLA+ strings.  Text   *)
(* that the code scans (help lines) is a sequence of one-character         *)
(* strings.  A SHA-256 digest is modelled as its preimage tagged "sha256"  *)
(* (collisions are not modelled).                                          *)
(***************************************************************************)
EXTENDS Integers, Sequences, FiniteSets, TLC

\* ------------------------------------------------------------------ bounds
NumTools == 2
NumCPU == 2
MaxWorkerRequest == 3

\* ------------------------------------------------------------- data model
NamePool == <<"git", "jq", "ls", "awk", "sed">>
ToolNames == {NamePool[i] : i \in 1..NumTools}
NoSuchTool == "nosuch"
Versions == {"", "1.0"}
Sources == {"none", "help", "man", "both", "help-only"}

Flag(name, short, arg, values, desc, required) ==
    [Name |-> name, Short |-> short, Arg |-> arg, ArgumentValues |-> values,
     Description |-> desc, Required |-> required]

Command(name, aliases, desc, subs, flags) ==
    [Name |-> name, Aliases |-> aliases, Description |-> desc,
     Subcommands |-> subs, Flags |-> flags]

Tool(name, path, version, parsedAt, source, subs, flags) ==
    [Name |-> name, Path |-> path, Version |-> version, ParsedAt |-> parsedAt,
     Source |-> source, Subcommands |-> subs, GlobalFlags |-> flags]

CatalogEntry(path, version, genVersion, hash, generated) ==
    [Path |-> path, Version |-> version, GeneratedVersion |-> genVersion,
     ContentHash |-> hash, Generated |-> generated]

\* -------------------------------------------------------- text
\* Text is a sequence of one-character strings; "" is <<>>.
IsSpace(c) == c \in {" ", "\t", "\r", "\n"}

RECURSIVE TrimLeftSpace(_)
TrimLeftSpace(s) ==
    IF s # <<>> /\ IsSpace(Head(s)) THEN TrimLeftSpace(Tail(s)) ELSE s

RECURSIVE TrimRightSpace(_)
TrimRightSpace(s) ==
    IF s # <<>> /\ IsSpace(s[Len(s)])
    THEN TrimRightSpace(SubSeq(s, 1, Len(s) - 1)) ELSE s

\* strings.TrimSpace
TrimSpace(s) == TrimRightSpace(TrimLeftSpace(s))

\* strings.HasPrefix
HasPrefix(s, p) == Len(s) >= Len(p) /\ SubSeq(s, 1, Len(p)) = p

\* strings.Index: the 0-based index of the first occurrence of sep, or -1.
RECURSIVE IndexFrom(_, _, _)
IndexFrom(s, sep, i) ==
    IF i + Len(sep) - 1 > Len(s) THEN -1
    ELSE IF SubSeq(s, i, i + Len(sep) - 1) = sep THEN i - 1
    ELSE IndexFrom(s, sep, i + 1)

Index(s, sep) == IndexFrom(s, sep, 1)

\* strings.Contains
Contains(s, sep) == Index(s, sep) >= 0

\* strings.SplitN(s, sep, 2)
SplitN2(s, sep) ==
    LET i == Index(s, sep)
    IN  IF i < 0 THEN <<s>>
        ELSE <<SubSeq(s, 1, i), SubSeq(s, i + Len(sep) + 1, Len(s))>>

\* strings.Split(s, sep) for a non-empty sep
RECURSIVE Split(_, _)
Split(s, sep) ==
    LET i == Index(s, sep)
    IN  IF i < 0 THEN <<s>>
        ELSE <<SubSeq(s, 1, i)>> \o Split(SubSeq(s, i + Len(sep) + 1, Len(s)), sep)

\* strings.Fields: the maximal runs of non-space characters.
RECURSIVE FieldsFrom(_, _)
FieldsFrom(s, cur) ==
    IF s = <<>> THEN (IF cur = <<>> THEN <<>> ELSE <<cur>>)
    ELSE IF IsSpace(Head(s))
         THEN (IF cur = <<>> THEN <<>> ELSE <<cur>>) \o FieldsFrom(Tail(s), <<>>)
         ELSE FieldsFrom(Tail(s), Append(cur, Head(s)))

Fields(s) == FieldsFrom(s, <<>>)

\* strings.Trim(s, cutset): cutset is a set of characters.
RECURSIVE TrimLeftSet(_, _)
TrimLeftSet(s, cutset) ==
    IF s # <<>> /\ Head(s) \in cutset THEN TrimLeftSet(Tail(s), cutset) ELSE s

RECURSIVE TrimRightSet(_, _)
TrimRightSet(s, cutset) ==
    IF s # <<>> /\ s[Len(s)] \in cutset
    THEN TrimRightSet(SubSeq(s, 1, Len(s) - 1), cutset) ELSE s

Trim(s, cutset) == TrimRightSet(TrimLeftSet(s, cutset), cutset)

\* strings.TrimSuffix
TrimSuffix(s, suffix) ==
    IF Len(s) >= Len(suffix) /\ SubSeq(s, Len(s) - Len(suffix) + 1, Len(s)) = suffix
    THEN SubSeq(s, 1, Len(s) - Len(suffix)) ELSE s

UpperCase == <<"A", "B", "C", "D", "E", "F", "G", "H", "I", "J", "K", "L", "M",
               "N", "O", "P", "Q", "R", "S", "T", "U", "V", "W", "X", "Y", "Z">>
LowerCase == <<"a", "b", "c", "d", "e", "f", "g", "h", "i", "j", "k", "l", "m",
               "n", "o", "p", "q", "r", "s", "t", "u", "v", "w", "x", "y", "z">>
Digits == {"0", "1", "2", "3", "4", "5", "6", "7", "8", "9"}
Range(f) == {f[i] : i \in DOMAIN f}

LowerOf(c) ==
    IF c \in Range(UpperCase)
    THEN LowerCase[CHOOSE i \in DOMAIN UpperCase : UpperCase[i] = c] ELSE c

\* strings.ToLower
ToLower(s) == [i \in DOMAIN s |-> LowerOf(s[i])]

\* Each element trimmed, as the loops over values do.
TrimEach(ss) == [i \in DOMAIN ss |-> TrimSpace(ss[i])]

\* -------------------------------------------------------- ContentHash
\* encoding/json of a string: quoted, with quote and backslash escaped.
RECURSIVE JsonEscape(_)
JsonEscape(s) ==
    IF s = <<>> THEN <<>>
    ELSE (IF Head(s) \in {"\"", "\\"} THEN <<"\\", Head(s)>> ELSE <<Head(s)>>)
         \o JsonEscape(Tail(s))

JsonString(s) == <<"\"">> \o JsonEscape(s) \o <<"\"">>

RECURSIVE JsonStrings(_)
JsonStrings(ss) ==
    IF ss = <<>> THEN <<>> ELSE JsonString(Head(ss)) \o JsonStrings(Tail(ss))

\* A field tagged omitempty is left out when it is the empty string, an
\* empty list or false.
JsonFlag(f) ==
    <<"{", "name:">> \o JsonString(f.Name)
    \o (IF f.Short # <<>> THEN <<"short:">> \o JsonString(f.Short) ELSE <<>>)
    \o (IF f.Arg # <<>> THEN <<"arg:">> \o JsonString(f.Arg) ELSE <<>>)
    \o (IF f.ArgumentValues # <<>>
          THEN <<"argument_values:", "[">> \o JsonStrings(f.ArgumentValues) \o <<"]">>
          ELSE <<>>)
    \o (IF f.Description # <<>> THEN <<"description:">> \o JsonString(f.Description) ELSE <<>>)
    \o (IF f.Required THEN <<"required:", "true">> ELSE <<>>)
    \o <<"}">>

RECURSIVE JsonFlags(_)
JsonFlags(fs) ==
    IF fs = <<>> THEN <<>> ELSE JsonFlag(Head(fs)) \o JsonFlags(Tail(fs))

RECURSIVE JsonCommand(_)
RECURSIVE JsonCommands(_)
JsonCommand(c) ==
    <<"{", "name:">> \o JsonString(c.Name)
    \o (IF c.Aliases # <<>>
          THEN <<"aliases:", "[">> \o JsonStrings(c.Aliases) \o <<"]">> ELSE <<>>)
    \o (IF c.Description # <<>> THEN <<"description:">> \o JsonString(c.Description) ELSE <<>>)
    \o (IF c.Subcommands # <<>>
          THEN <<"subcommands:", "[">> \o JsonCommands(c.Subcommands) \o <<"]">> ELSE <<>>)
    \o (IF c.Flags # <<>>
          THEN <<"flags:", "[">> \o JsonFlags(c.Flags) \o <<"]">> ELSE <<>>)
    \o <<"}">>

JsonCommands(cs) ==
    IF cs = <<>> THEN <<>> ELSE JsonCommand(Head(cs)) \o JsonCommands(Tail(cs))

\* A fingerprint that also covers identity fields of the Tool.
HashedContentAll(t) ==
    <<"{", "name:", t.Name, "version:", t.Version>>
    \o (IF t.Subcommands # <<>>
          THEN <<"subcommands:", "[">> \o JsonCommands(t.Subcommands) \o <<"]">> ELSE <<>>)
    \o (IF t.GlobalFlags # <<>>
          THEN <<"global_flags:", "[">> \o JsonFlags(t.GlobalFlags) \o <<"]">> ELSE <<>>)
    \o <<"}">>

\* The anonymous struct {Subcommands, GlobalFlags} that ContentHash marshals.
HashedContent(t) ==
    <<"{">>
    \o (IF t.Subcommands # <<>>
          THEN <<"subcommands:", "[">> \o JsonCommands(t.Subcommands) \o <<"]">> ELSE <<>>)
    \o (IF t.GlobalFlags # <<>>
          THEN <<"global_flags:", "[">> \o JsonFlags(t.GlobalFlags) \o <<"]">> ELSE <<>>)
    \o <<"}">>

Sha256Hex(data) == <<"sha256">> \o data

ContentHash(t) == Sha256Hex(HashedContent(t))

\* The empty string in a hash field.
NoHash == <<>>

\* -------------------------------------------------------- line classifier
NoFlag == Flag(<<>>, <<>>, <<>>, <<>>, <<>>, FALSE)
Nil == [nil |-> TRUE]
Some(v) == [nil |-> FALSE, val |-> v]

TwoSpaces == <<" ", " ">>
ValueArg == <<"v", "a", "l", "u", "e">>

\* isValidCommandName (part_009:694-706)
IsNameChar(c) ==
    c \in Range(LowerCase) \cup Range(UpperCase) \cup Digits \cup {"-", "_"}

isValidCommandName(s) ==
    /\ s # <<>>
    /\ Len(s) <= 30
    /\ \A i \in DOMAIN s : IsNameChar(s[i])

\* parseFlagLine, lines 573-596: a token that starts with "--".
LongToken(flag, token) ==
    LET idx == Index(token, <<"=">>)
    IN  IF idx > 0
        THEN LET argPart == Trim(SubSeq(token, idx + 2, Len(token)),
                                 {"<", ">", "[", "]", "(", ")", "{", "}"})
                 name == SubSeq(token, 1, idx)
             IN  IF Contains(argPart, <<"|">>)
                 THEN [flag EXCEPT !.Name = name,
                                   !.ArgumentValues = TrimEach(Split(argPart, <<"|">>)),
                                   !.Arg = ValueArg]
                 ELSE [flag EXCEPT !.Name = name, !.Arg = argPart]
        ELSE [flag EXCEPT !.Name = token]

\* parseFlagLine, lines 600-612: a token that starts with "<" or "[".
PlaceholderToken(flag, token) ==
    LET argContent == Trim(token, {"<", ">", "[", "]"})
    IN  IF Contains(argContent, <<"|">>)
        THEN [flag EXCEPT !.ArgumentValues = TrimEach(Split(argContent, <<"|">>)),
                          !.Arg = ValueArg]
        ELSE [flag EXCEPT !.Arg = argContent]

ChoiceTokenIgnored(flag, token) == flag

\* parseFlagLine, lines 613-628: a token that starts with "{" or "(".
ChoiceToken(flag, token) ==
    LET content == Trim(token, {"{", "}", "(", ")"})
        values == IF Contains(content, <<"|">>) THEN Split(content, <<"|">>)
                  ELSE IF Contains(content, <<",">>) THEN Split(content, <<",">>)
                  ELSE <<>>
    IN  IF Len(values) > 0
        THEN [flag EXCEPT !.ArgumentValues = TrimEach(values), !.Arg = ValueArg]
        ELSE flag

\* parseFlagLine, lines 570-630: one iteration of the token loop.
FlagToken(flag, rawToken) ==
    LET token == TrimSuffix(rawToken, <<",">>)
    IN  IF HasPrefix(token, <<"-", "-">>) THEN LongToken(flag, token)
        ELSE IF HasPrefix(token, <<"-">>) /\ Len(token) = 2
             THEN [flag EXCEPT !.Short = token]
        ELSE IF HasPrefix(token, <<"<">>) \/ HasPrefix(token, <<"[">>)
             THEN PlaceholderToken(flag, token)
        ELSE IF HasPrefix(token, <<"{">>) \/ HasPrefix(token, <<"(">>)
             THEN ChoiceToken(flag, token)
        ELSE flag

RECURSIVE FlagTokens(_, _)
FlagTokens(flag, tokens) ==
    IF tokens = <<>> THEN flag
    ELSE FlagTokens(FlagToken(flag, Head(tokens)), Tail(tokens))

\* parseFlagLine, lines 630-643: a flag needs a long or a short name, and a
\* lone short name becomes the name.
NamedFlag(flag) ==
    IF flag.Name = <<>> /\ flag.Short = <<>> THEN Nil
    ELSE IF flag.Name = <<>>
         THEN Some([flag EXCEPT !.Name = flag.Short, !.Short = <<>>])
    ELSE Some(flag)

\* parseFlagLine, lines 562-570: parts is the line split at the first run
\* of two spaces, the flag part before the description.
FlagOfParts(parts) ==
    NamedFlag(FlagTokens(IF Len(parts) > 1
                         THEN [NoFlag EXCEPT !.Description = TrimSpace(parts[2])]
                         ELSE NoFlag,
                         Fields(parts[1])))

\* parseFlagLine, lines 542-558, on the trimmed line.
FlagOfTrimmed(trimmed) ==
    IF trimmed = <<>> THEN Nil
    ELSE IF ~HasPrefix(trimmed, <<"-">>) THEN Nil
    ELSE FlagOfParts(SplitN2(trimmed, TwoSpaces))

\* parseFlagLine (part_009:541-644)
parseFlagLine(line) == FlagOfTrimmed(TrimSpace(line))

\* parseCommandLine, lines 500-507: the valid names of a comma group.
RECURSIVE ValidNames(_)
ValidNames(nameParts) ==
    IF nameParts = <<>> THEN <<>>
    ELSE LET np == TrimSpace(Head(nameParts))
         IN  (IF isValidCommandName(np) THEN <<np>> ELSE <<>>)
             \o ValidNames(Tail(nameParts))

RECURSIVE PickPrimaryLast(_, _, _)
PickPrimaryLast(primaryName, aliases, rest) ==
    IF rest = <<>> THEN Command(primaryName, aliases, <<>>, <<>>, <<>>)
    ELSE IF Len(Head(rest)) >= Len(primaryName)
         THEN PickPrimaryLast(Head(rest), Append(aliases, primaryName), Tail(rest))
         ELSE PickPrimaryLast(primaryName, Append(aliases, Head(rest)), Tail(rest))

\* parseCommandLine, lines 512-520: the longest name becomes primary.
RECURSIVE PickPrimary(_, _, _)
PickPrimary(primaryName, aliases, rest) ==
    IF rest = <<>> THEN Command(primaryName, aliases, <<>>, <<>>, <<>>)
    ELSE IF Len(Head(rest)) > Len(primaryName)
         THEN PickPrimary(Head(rest), Append(aliases, primaryName), Tail(rest))
         ELSE PickPrimary(primaryName, Append(aliases, Head(rest)), Tail(rest))

\* parseCommandLine, lines 509-520: the first valid name of a comma group,
\* or no command when there is none.
CommandOfNames(validNames, desc) ==
    IF Len(validNames) = 0 THEN Nil
    ELSE Some([PickPrimary(validNames[1], <<>>, Tail(validNames))
                 EXCEPT !.Description = desc])

\* parseCommandLine, lines 494-535: cmdPart names the command, alone or as
\* a comma group.
CommandOfNamePart(cmdPart, desc) ==
    IF Contains(cmdPart, <<",">>)
    THEN CommandOfNames(ValidNames(Split(cmdPart, <<",">>)), desc)
    ELSE IF ~isValidCommandName(cmdPart) THEN Nil
    ELSE Some(Command(cmdPart, <<>>, desc, <<>>, <<>>))

\* parseCommandLine, lines 482-487 and 531-535.
CommandOfParts(parts) ==
    CommandOfNamePart(TrimSpace(parts[1]),
                      IF Len(parts) > 1 THEN TrimSpace(parts[2]) ELSE <<>>)

\* parseCommandLine, lines 473-481, on the trimmed line.
CommandOfTrimmed(trimmed) ==
    IF trimmed = <<>> THEN Nil
    ELSE IF HasPrefix(trimmed, <<"-">>) THEN Nil
    ELSE CommandOfParts(SplitN2(trimmed, TwoSpaces))

\* parseCommandLine (part_009:472-538)
parseCommandLine(line) == CommandOfTrimmed(TrimSpace(line))

\* parseIndentedCommand, lines 450-468.
IndentedOfNamed(cmdName, desc) ==
    IF ~isValidCommandName(cmdName) THEN Nil
    ELSE IF Len(desc) = 0 THEN Nil
    ELSE Some(Command(cmdName, <<>>, desc, <<>>, <<>>))

\* parseIndentedCommand, lines 445-451.
IndentedOfParts(parts) ==
    IF Len(parts) < 2 THEN Nil
    ELSE IndentedOfNamed(TrimSpace(parts[1]), TrimSpace(parts[2]))

\* parseIndentedCommand, lines 435-445, on the trimmed line.
IndentedOfTrimmed(trimmed) ==
    IF trimmed = <<>> THEN Nil
    ELSE IF HasPrefix(trimmed, <<"-">>) \/ HasPrefix(trimmed, <<"(">>) THEN Nil
    ELSE IndentedOfParts(SplitN2(trimmed, TwoSpaces))

\* parseIndentedCommand (part_009:434-469)
parseIndentedCommand(line) == IndentedOfTrimmed(TrimSpace(line))

\* -------------------------------------------------------- text extractor
\* UniqueSet.Add (part_009:83-91): seen is the key set, items the slice.
UniqueAddAlways(seen, items, key, item) ==
    [seen |-> seen \cup {key}, items |-> Append(items, item), added |-> TRUE]

UniqueAdd(seen, items, key, item) ==
    IF key \in seen
    THEN [seen |-> seen, items |-> items, added |-> FALSE]
    ELSE [seen |-> seen \cup {key}, items |-> Append(items, item), added |-> TRUE]

\* NewUniqueSet (part_009:74-80): the keys of the items already there.
SeenKeys(items) == {items[i].Name : i \in DOMAIN items}

\* The locals of a scanning loop: the two mode flags, the two lists with
\* their UniqueSets, parseManPage's currentFlag (an index, 0 for nil), and
\* which kinds of entry were discarded as duplicates.  xFlags and xCmds list
\* what the line classifier returned to the loop, in order.
Scan(inC, inO, flags, cmds, fSeen, cSeen, cur, drops) ==
    [inCommands |-> inC, inOptions |-> inO, flags |-> flags, cmds |-> cmds,
     flagSeen |-> fSeen, cmdSeen |-> cSeen, currentFlag |-> cur, dropped |-> drops,
     xFlags |-> <<>>, xCmds |-> <<>>]

\* flagSet.Add(*flag) when flag is not nil.
AddFlag(st, found) ==
    IF found.nil THEN st
    ELSE LET r == UniqueAdd(st.flagSeen, st.flags, found.val.Name, found.val)
         IN  [st EXCEPT !.flagSeen = r.seen, !.flags = r.items,
                        !.dropped = IF r.added THEN @ ELSE @ \cup {"flag"},
                        !.xFlags = Append(@, found.val)]

\* cmdSet.Add(*cmd) when cmd is not nil.
AddCmd(st, found) ==
    IF found.nil THEN st
    ELSE LET r == UniqueAdd(st.cmdSeen, st.cmds, found.val.Name, found.val)
         IN  [st EXCEPT !.cmdSeen = r.seen, !.cmds = r.items,
                        !.dropped = IF r.added THEN @ ELSE @ \cup {"cmd"},
                        !.xCmds = Append(@, found.val)]

\* parseHelpOutput, lines 375-378
IsHelpCommandsHeader(lower) ==
    \/ HasPrefix(lower, <<"c", "o", "m", "m", "a", "n", "d", "s", ":">>)
    \/ HasPrefix(lower, <<"a", "v", "a", "i", "l", "a", "b", "l", "e", " ", "c", "o", "m", "m", "a", "n", "d", "s", ":">>)
    \/ HasPrefix(lower, <<"s", "u", "b", "c", "o", "m", "m", "a", "n", "d", "s", ":">>)
    \/ lower = <<"c", "o", "m", "m", "a", "n", "d", "s">>

\* parseHelpOutput, lines 385-389
IsHelpOptionsHeader(lower) ==
    \/ HasPrefix(lower, <<"o", "p", "t", "i", "o", "n", "s", ":">>)
    \/ HasPrefix(lower, <<"f", "l", "a", "g", "s", ":">>)
    \/ HasPrefix(lower, <<"g", "l", "o", "b", "a", "l", " ", "o", "p", "t", "i", "o", "n", "s", ":">>)
    \/ HasPrefix(lower, <<"g", "l", "o", "b", "a", "l", " ", "f", "l", "a", "g", "s", ":">>)
    \/ lower = <<"o", "p", "t", "i", "o", "n", "s">>
    \/ lower = <<"f", "l", "a", "g", "s">>

\* parseSubcommandOutput, lines 284-286
IsSubCommandsHeader(lower) ==
    \/ HasPrefix(lower, <<"c", "o", "m", "m", "a", "n", "d", "s", ":">>)
    \/ HasPrefix(lower, <<"a", "v", "a", "i", "l", "a", "b", "l", "e", " ", "c", "o", "m", "m", "a", "n", "d", "s", ":">>)
    \/ HasPrefix(lower, <<"s", "u", "b", "c", "o", "m", "m", "a", "n", "d", "s", ":">>)

\* parseSubcommandOutput, lines 292-293
IsSubOptionsHeader(lower) ==
    \/ HasPrefix(lower, <<"o", "p", "t", "i", "o", "n", "s", ":">>)
    \/ HasPrefix(lower, <<"f", "l", "a", "g", "s", ":">>)

StartsIndented(line) == Len(line) > 3 /\ line[1] \in {" ", "\t"}

\* parseHelpOutput, lines 422-428: an indented line outside every section.
HelpIndented(st, line) ==
    IF ~st.inCommands /\ ~st.inOptions /\ StartsIndented(line)
    THEN AddCmd(st, parseIndentedCommand(line)) ELSE st

\* parseHelpOutput, lines 415-420: a flag line outside the options section.
HelpInlineFlag(st, line) ==
    HelpIndented(IF ~st.inOptions /\ HasPrefix(TrimSpace(line), <<"-">>)
                 THEN AddFlag(st, parseFlagLine(line)) ELSE st, line)

\* parseHelpOutput, lines 408-413: a line of the options section.
HelpSectionFlag(st, line) ==
    HelpInlineFlag(IF st.inOptions THEN AddFlag(st, parseFlagLine(line)) ELSE st,
                   line)

\* parseHelpOutput, lines 401-406: a line of the commands section.
HelpSectionCommand(st, line) ==
    HelpSectionFlag(IF st.inCommands THEN AddCmd(st, parseCommandLine(line)) ELSE st,
                    line)

HelpClassifiedSticky(st, line, trimmed, lower) ==
    IF IsHelpCommandsHeader(lower)
    THEN [st EXCEPT !.inCommands = TRUE]
    ELSE IF IsHelpOptionsHeader(lower)
    THEN [st EXCEPT !.inOptions = TRUE]
    ELSE IF trimmed = <<>> THEN st
    ELSE HelpSectionCommand(st, line)

\* parseHelpOutput, lines 372-399: headers and empty lines.
HelpClassified(st, line, trimmed, lower) ==
    IF IsHelpCommandsHeader(lower)
    THEN [st EXCEPT !.inCommands = TRUE, !.inOptions = FALSE]
    ELSE IF IsHelpOptionsHeader(lower)
    THEN [st EXCEPT !.inCommands = FALSE, !.inOptions = TRUE]
    ELSE IF trimmed = <<>> THEN st
    ELSE HelpSectionCommand(st, line)

HelpTrimmed(st, line, trimmed) == HelpClassified(st, line, trimmed, ToLower(trimmed))

\* parseHelpOutput (part_009:360-430): the loop body for one line.
HelpLineStep(st, line) == HelpTrimmed(st, line, TrimSpace(line))

\* parseSubcommandOutput, lines 318-322: an indented line outside every section.
SubIndented(st, line) ==
    IF ~st.inCommands /\ ~st.inOptions /\ StartsIndented(line)
    THEN AddCmd(st, parseIndentedCommand(line)) ELSE st

\* parseSubcommandOutput, lines 311-316: a line of the options section, or
\* a flag line anywhere.
SubFlag(st, line, trimmed) ==
    SubIndented(IF st.inOptions \/ HasPrefix(trimmed, <<"-">>)
                THEN AddFlag(st, parseFlagLine(line)) ELSE st, line)

\* parseSubcommandOutput, lines 304-309: a line of the commands section.
SubSectionCommand(st, line, trimmed) ==
    SubFlag(IF st.inCommands THEN AddCmd(st, parseCommandLine(line)) ELSE st,
            line, trimmed)

\* parseSubcommandOutput, lines 280-302: headers and empty lines.
SubClassified(st, line, trimmed, lower) ==
    IF IsSubCommandsHeader(lower)
    THEN [st EXCEPT !.inCommands = TRUE, !.inOptions = FALSE]
    ELSE IF IsSubOptionsHeader(lower)
    THEN [st EXCEPT !.inCommands = FALSE, !.inOptions = TRUE]
    ELSE IF trimmed = <<>> THEN st
    ELSE SubSectionCommand(st, line, trimmed)

SubTrimmed(st, line, trimmed) == SubClassified(st, line, trimmed, ToLower(trimmed))

\* parseSubcommandOutput (part_009:269-324): the loop body for one line.
SubLineStep(st, line) == SubTrimmed(st, line, TrimSpace(line))

ManSectionHeaders ==
    {<<"N", "A", "M", "E">>,
     <<"S", "Y", "N", "O", "P", "S", "I", "S">>,
     <<"D", "E", "S", "C", "R", "I", "P", "T", "I", "O", "N">>,
     <<"O", "P", "T", "I", "O", "N", "S">>,
     <<"A", "R", "G", "U", "M", "E", "N", "T", "S">>,
     <<"C", "O", "M", "M", "A", "N", "D", "S">>,
     <<"E", "X", "I", "T", " ", "S", "T", "A", "T", "U", "S">>,
     <<"E", "N", "V", "I", "R", "O", "N", "M", "E", "N", "T">>,
     <<"F", "I", "L", "E", "S">>,
     <<"E", "X", "A", "M", "P", "L", "E", "S">>,
     <<"S", "E", "E", " ", "A", "L", "S", "O">>,
     <<"B", "U", "G", "S">>,
     <<"A", "U", "T", "H", "O", "R">>,
     <<"A", "U", "T", "H", "O", "R", "S">>,
     <<"H", "I", "S", "T", "O", "R", "Y">>,
     <<"N", "O", "T", "E", "S">>,
     <<"C", "A", "V", "E", "A", "T", "S">>,
     <<"D", "I", "A", "G", "N", "O", "S", "T", "I", "C", "S">>}

\* No line is taken for a section header.
isManSectionHeaderNever(t) == FALSE

\* isManSectionHeader (part_009:709-722)
isManSectionHeader(t) ==
    \E h \in ManSectionHeaders : t = h \/ HasPrefix(t, h \o <<" ">>)

\* parseManPage, lines 679-684: currentFlag follows a flag that was appended.
ManFlagAdded(st, added) ==
    IF Len(added.flags) > Len(st.flags)
    THEN [added EXCEPT !.currentFlag = Len(added.flags)]
    ELSE added

\* parseManPage, lines 651-691, on the line and its trimmed form.
ManTrimmed(st, line, trimmed) ==
    IF HasPrefix(trimmed, <<"O", "P", "T", "I", "O", "N", "S">>)
    THEN [st EXCEPT !.inOptions = TRUE]
    ELSE IF /\ st.inOptions
            /\ Len(line) > 0 /\ line[1] \notin {" ", "\t"}
            /\ isManSectionHeader(trimmed)
    THEN [st EXCEPT !.inOptions = FALSE]
    ELSE IF ~st.inOptions THEN st
    ELSE IF HasPrefix(trimmed, <<"-">>)
    THEN ManFlagAdded(st, AddFlag(st, parseFlagLine(line)))
    ELSE IF /\ st.currentFlag # 0
            /\ trimmed # <<>>
            /\ st.flags[st.currentFlag].Description = <<>>
    THEN [st EXCEPT !.flags[st.currentFlag].Description = trimmed]
    ELSE st

\* parseManPage (part_009:647-692): the loop body for one line.
ManLineStep(st, line) == ManTrimmed(st, line, TrimSpace(line))

\* The Command at a path of list indices below the top-level commands.
RECURSIVE CommandAt(_, _)
CommandAt(cmds, path) ==
    IF Len(path) = 1 THEN cmds[path[1]]
    ELSE CommandAt(cmds[path[1]].Subcommands, Tail(path))

\* The tree with the Command at path replaced (cmd := &commands[i]).
RECURSIVE WithCommandAt(_, _, _)
WithCommandAt(cmds, path, cmd) ==
    IF Len(path) = 1 THEN [cmds EXCEPT ![path[1]] = cmd]
    ELSE [cmds EXCEPT ![path[1]].Subcommands =
              WithCommandAt(cmds[path[1]].Subcommands, Tail(path), cmd)]

\* The commands a parseNestedSubcommands call ranges over: the children of
\* the node at path (the tool itself for the empty path).
CommandsUnder(tool, path) ==
    IF path = <<>> THEN tool.Subcommands
    ELSE CommandAt(tool.Subcommands, path).Subcommands

\* New (part_009:41-59): a zero MaxDepth means the default.
EffectiveMaxDepth(configured) == IF configured = 0 THEN 2 ELSE configured

\* parseNestedSubcommands, line 224: the recursion guard.
DepthReachedLate(depth, maxDepth) == depth > maxDepth
DepthReached(depth, maxDepth) == depth >= maxDepth

\* ------------------------------------------------- pipeline: inputs
\* Extracted trees a Parse call may return in the pipeline model.
EmptyContent == [Subcommands |-> <<>>, GlobalFlags |-> <<>>]
\* one global flag: -v
FlagsContent ==
    [Subcommands |-> <<>>,
     GlobalFlags |-> <<Flag(<<"-", "v">>, <<>>, <<>>, <<>>, <<>>, FALSE)>>]
Contents == {EmptyContent, FlagsContent}

\* What p.Parse can hand to processTools.  A tool whose source is none or
\* help-only had no text parsed (part_009:172-208), and a man page yields
\* global flags only (part_009:646-692).
ParsedContents(source) ==
    CASE source \in {"none", "help-only"} -> {EmptyContent}
      [] source = "man" -> {c \in Contents : c.Subcommands = <<>>}
      [] OTHER -> Contents

ParseOutcomes(name, path) ==
    {[err |-> TRUE, tool |-> Tool(name, path, "", 0, "", <<>>, <<>>)]}
    \cup {[err |-> FALSE,
           tool |-> Tool(name, path, v, 0, s, c.Subcommands, c.GlobalFlags)] :
            <<v, s, c>> \in {x \in Versions \X Sources \X Contents :
                                x[3] \in ParsedContents(x[2])}}

\* Catalog entries a previous run can have left: never generated (scanner)
\* and generated by an earlier Generate.
CachedVersions == {"", "1.0"}
CachedContents == {FlagsContent}
PathOf(name) == <<"/usr/bin", name>>
CatalogEntries(name) ==
    {CatalogEntry(PathOf(name), "", "", NoHash, FALSE)}
    \cup {CatalogEntry(PathOf(name), v, v,
                       ContentHash(Tool(name, PathOf(name), v, 0, "help",
                                        c.Subcommands, c.GlobalFlags)), TRUE) :
            v \in CachedVersions, c \in CachedContents}

WorkerRequests == -1..MaxWorkerRequest
WorkerIds == 1..NumTools

\* Generate, lines 70-78: the pool width.
EffectiveWorkers(requested, ntools) ==
    LET w == IF requested <= 0 THEN NumCPU ELSE requested
    IN  IF w > ntools THEN ntools ELSE w

\* Generate, lines 81-82: both channels are buffered with len(tools).
ToolChanCap(ntools) == ntools
ResultChanCapShort(ntools) == ntools - 1
ResultChanCap(ntools) == ntools

\* wg.Wait() returns when the counter is zero.
WaitGroupDoneEarly(counter) == counter <= 1
WaitGroupDone(counter) == counter = 0

\* processTools, lines 201-222: the skip decision and the regeneration tag.
Classify(force, entry, version, hash) ==
    IF ~force /\ entry.Generated /\ entry.GeneratedVersion # ""
    THEN LET versionMatch == entry.GeneratedVersion = version
             hashMatch == entry.ContentHash # NoHash /\ entry.ContentHash = hash
         IN  IF versionMatch /\ hashMatch THEN "skipped"
             ELSE IF ~versionMatch THEN "version_changed"
             ELSE "hash_changed"
    ELSE "success"

ToolResult(name, status, version, genVersion, hash, error, message) ==
    [Name |-> name, Status |-> status, Version |-> version,
     GeneratedVersion |-> genVersion, ContentHash |-> hash,
     Error |-> error, Message |-> message]

RegenMessage(status) ==
    CASE status = "version_changed" -> "version changed"
      [] status = "hash_changed" -> "help output changed"
      [] OTHER -> ""

\* ------------------------------------------------- extractor: inputs
MaxTextLines == 4
MaxConfigDepth == 3

\* Lines a --help output is made of in the extractor model.
\*   'Commands:'
\*   'Options:'
\*   '  build   Build it'
\*   '  build, b  Again'
\*   '  -o, --output <file>  Output'
\*   '--output=a|b'
\*   ''
HelpLines ==
    {<<"C", "o", "m", "m", "a", "n", "d", "s", ":">>,
     <<"O", "p", "t", "i", "o", "n", "s", ":">>,
     <<" ", " ", "b", "u", "i", "l", "d", " ", " ", " ", "B", "u", "i", "l", "d", " ", "i", "t">>,
     <<" ", " ", "b", "u", "i", "l", "d", ",", " ", "b", " ", " ", "A", "g", "a", "i", "n">>,
     <<" ", " ", "-", "o", ",", " ", "-", "-", "o", "u", "t", "p", "u", "t", " ", "<", "f", "i", "l", "e", ">", " ", " ", "O", "u", "t", "p", "u", "t">>,
     <<"-", "-", "o", "u", "t", "p", "u", "t", "=", "a", "|", "b">>,
     <<>>}

\* Lines of a man page.
\*   'OPTIONS'
\*   'NAME'
\*   '       -v'
\*   '       --output  Man text'
\*   '           Be verbose'
ManLines ==
    {<<"O", "P", "T", "I", "O", "N", "S">>,
     <<"N", "A", "M", "E">>,
     <<" ", " ", " ", " ", " ", " ", " ", "-", "v">>,
     <<" ", " ", " ", " ", " ", " ", " ", "-", "-", "o", "u", "t", "p", "u", "t", " ", " ", "M", "a", "n", " ", "t", "e", "x", "t">>,
     <<" ", " ", " ", " ", " ", " ", " ", " ", " ", " ", " ", "B", "e", " ", "v", "e", "r", "b", "o", "s", "e">>}

\* Lines of a subcommand's help output.
\*   'Commands:'
\*   '  add  Add it'
\*   '  add, a  Other'
\*   '  --force  Force'
\*   '-f, --force'
SubHelpLines ==
    {<<"C", "o", "m", "m", "a", "n", "d", "s", ":">>,
     <<" ", " ", "a", "d", "d", " ", " ", "A", "d", "d", " ", "i", "t">>,
     <<" ", " ", "a", "d", "d", ",", " ", "a", " ", " ", "O", "t", "h", "e", "r">>,
     <<" ", " ", "-", "-", "f", "o", "r", "c", "e", " ", " ", "F", "o", "r", "c", "e">>,
     <<"-", "f", ",", " ", "-", "-", "f", "o", "r", "c", "e">>}

\* ------------------------------------------------- extractor and fingerprint: state
VARIABLES
    pMaxDepth,        \* p.config.MaxDepth
    pPhase,           \* Parse: "help", "man", "source", "explore", "sub", "done"
    pBudget,          \* lines the environment may still produce
    pTool,            \* the Tool being built
    pManKind,         \* getManPage: "text", "empty", "permErr", "otherErr"
    pHelpGiven,       \* runHelp returned a non-empty output
    inCommands, inOptions,
    flagSeen, cmdSeen,   \* UniqueSet.seen of the two lists being filled
    currentFlag,      \* parseManPage: index of the flag pointed to, 0 for nil
    pStack,           \* parseNestedSubcommands: the active calls, innermost last
    pTarget,          \* path of the Command parseSubcommandOutput fills
    probed,           \* history: paths of the commands a help probe was run for
    firstFlags,       \* history: <<path, flag>> as first extracted per list and name
    firstCmds,        \* history: <<path, command>> as first extracted per list and name
    dropped,          \* history: kinds of entry discarded as duplicates
    hA, hB,           \* fingerprint: two Tool values
    hashA, hashB      \* fingerprint: their ContentHash once computed

parseVars ==
    <<pMaxDepth, pPhase, pBudget, pTool, pManKind, pHelpGiven, inCommands,
      inOptions, flagSeen, cmdSeen, currentFlag, pStack, pTarget, probed,
      firstFlags, firstCmds, dropped>>

hashVars == <<hA, hB, hashA, hashB>>

\* The extractor and the fingerprint variables while another part of the
\* program is the one being run.
ParseIdle ==
    /\ pMaxDepth = 0 /\ pPhase = "idle" /\ pBudget = 0
    /\ pTool = Tool("", <<>>, "", 0, "", <<>>, <<>>)
    /\ pManKind = "empty" /\ pHelpGiven = FALSE
    /\ inCommands = FALSE /\ inOptions = FALSE
    /\ flagSeen = {} /\ cmdSeen = {} /\ currentFlag = 0
    /\ pStack = <<>> /\ pTarget = <<>> /\ probed = {}
    /\ firstFlags = {} /\ firstCmds = {} /\ dropped = {}

HashIdle ==
    /\ hA = Tool("", <<>>, "", 0, "", <<>>, <<>>)
    /\ hB = Tool("", <<>>, "", 0, "", <<>>, <<>>)
    /\ hashA = Nil /\ hashB = Nil

\* ------------------------------------------------- pipeline: state
VARIABLES
    catalog,          \* the catalog loaded by Generate: name -> CatalogEntry
    force,            \* opts.Force
    tools,            \* the names Generate decided to process
    workers,          \* the pool width after clamping
    mainPc,           \* Generate: "returned", "spawn", "send", "collect", "done"
    spawned,          \* worker goroutines started so far
    unsent,           \* names not yet written to toolChan
    toolChan, toolChanClosed,
    resultChan, resultChanClosed,
    closerStarted,    \* the goroutine of lines 101-104 exists
    wg,               \* sync.WaitGroup counter
    wpc,              \* per worker: "idle", "recv", "process", "exited", "panic"
    wname, wentry,    \* per worker: name and entry of the current iteration
    succeeded, skipped, failed, catalogUpdates,
    savedTools, bashSaved, zshSaved,   \* names with a file written by storage
    catalogSaves,     \* calls of storage.SaveCatalog
    returnErr,        \* Generate's return value is an error
    catalog0,         \* history: the catalog as loaded
    taken,            \* history: name -> times received from toolChan
    resultsSent,      \* history: name -> results written to resultChan
    parsed            \* history: name -> how its loop iteration went

genVars ==
    <<catalog, force, tools, workers, mainPc, spawned, unsent, toolChan,
      toolChanClosed, resultChan, resultChanClosed, closerStarted, wg, wpc,
      wname, wentry, succeeded, skipped, failed,
      catalogUpdates, savedTools, bashSaved, zshSaved, catalogSaves,
      returnErr, catalog0, taken, resultsSent, parsed>>

\* ------------------------------------------------- probes: state
VARIABLES
    prInput,          \* Parse's arguments and what os.Stat says of the path
    prPc,             \* Parse: "validate", "version", "help", "helpFallback",
                      \* "man", "source", "sub", "subFallback", "returned"
    prVerIdx,         \* detectVersionWithConfig: index of the next cfg.VersionCmds
    prCtxExpired,     \* the deadline of the ctx of the running probe function passed
    prLog,            \* history: the exec.CommandContext calls made, in order
    prOut             \* the locals of Parse: version, helpOutput, helpErr, ...

probeVars == <<prInput, prPc, prVerIdx, prCtxExpired, prLog, prOut>>

\* ------------------------------------------------- single calls: state
VARIABLES
    fnArg,            \* the argument of the function called
    fnRes             \* Nil before the call, Some(result) after it

fnVars == <<fnArg, fnRes>>

\* ------------------------------------------------- two scans of one text: state
VARIABLES
    scLeft,           \* lines the text may still have
    scLine,           \* the line both loops read last
    scHelp,           \* parseHelpOutput: its locals and lists after that line
    scSub             \* parseSubcommandOutput: its locals and lists after it

scanVars == <<scLeft, scLine, scHelp, scSub>>

\* parseManPage on a text read line by line.
VARIABLES
    mnLeft,           \* lines the text may still have
    mnLine,           \* the line read last
    mnScan,           \* parseManPage: its locals and the flags after that line
    mnSection,        \* the section the text itself is in after that line
    mnLast            \* the flag named by the last flag line of OPTIONS

manVars == <<mnLeft, mnLine, mnScan, mnSection, mnLast>>

\* Commands run one after another on the catalog entry of one tool.
VARIABLES
    rnTool,           \* what p.Parse yields for the tool, on every run
    rnEntry,          \* the tool's entry in the saved catalog
    rnLog,            \* history: the commands run and how each went
    rnLeft            \* commands that may still be run

runVars == <<rnTool, rnEntry, rnLog, rnLeft>>

\* Install and Uninstall on one shell rc file.
VARIABLES
    rcShell,          \* "bash" for ~/.bashrc, "zsh" for ~/.zshrc
    rcOriginal,       \* history: the file before Install
    rcContent,        \* the file
    rcUser,           \* history: the lines the user appended after Install
    rcPc              \* "fresh", "installed", "removed", "untouched"

rcVars == <<rcShell, rcOriginal, rcContent, rcUser, rcPc>>

nonGenVars == <<parseVars, hashVars, probeVars, fnVars, scanVars, manVars, runVars, rcVars>>
nonParseVars == <<genVars, hashVars, probeVars, fnVars, scanVars, manVars, runVars, rcVars>>
nonHashVars == <<genVars, parseVars, probeVars, fnVars, scanVars, manVars, runVars, rcVars>>
nonProbeVars == <<genVars, parseVars, hashVars, fnVars, scanVars, manVars, runVars, rcVars>>
nonFnVars == <<genVars, parseVars, hashVars, probeVars, scanVars, manVars, runVars, rcVars>>
nonScanVars == <<genVars, parseVars, hashVars, probeVars, fnVars, manVars, runVars, rcVars>>
nonManVars == <<genVars, parseVars, hashVars, probeVars, fnVars, scanVars, runVars, rcVars>>
nonRunVars == <<genVars, parseVars, hashVars, probeVars, fnVars, scanVars, manVars, rcVars>>
nonRcVars == <<genVars, parseVars, hashVars, probeVars, fnVars, scanVars, manVars, runVars>>
vars == <<genVars, parseVars, hashVars, probeVars, fnVars, scanVars, manVars, runVars, rcVars>>

\* The variables of the rc file while another part of the program is run.
RcIdle == rcShell = "" /\ rcOriginal = <<>> /\ rcContent = <<>> /\ rcUser = <<>> /\ rcPc = ""

\* The variables of the command sequence while another part of the program is run.
RunIdle == rnTool = <<>> /\ rnEntry = <<>> /\ rnLog = <<>> /\ rnLeft = 0

\* The variables of the man page scan while another part of the program is run.
ManIdle == mnLeft = 0 /\ mnLine = <<>> /\ mnScan = <<>> /\ mnSection = "" /\ mnLast = Nil

\* The variables of the two scans while another part of the program is run.
ScanIdle == scLeft = 0 /\ scLine = <<>> /\ scHelp = <<>> /\ scSub = <<>>

\* The variables of a single call while another part of the program is run.
FnIdle == fnArg = <<>> /\ fnRes = Nil

\* The probe variables while another part of the program is being run.
ProbeIdle ==
    /\ prInput = "" /\ prPc = "idle" /\ prVerIdx = 0
    /\ prCtxExpired = FALSE /\ prLog = <<>> /\ prOut = <<>>

\* The pipeline variables while another part of the program is being run.
GenIdle ==
    /\ catalog = <<>> /\ catalog0 = <<>> /\ force = FALSE /\ tools = {}
    /\ workers = 0 /\ mainPc = "idle" /\ returnErr = FALSE
    /\ unsent = {} /\ spawned = 0
    /\ toolChan = <<>> /\ toolChanClosed = FALSE
    /\ resultChan = <<>> /\ resultChanClosed = FALSE
    /\ closerStarted = FALSE /\ wg = 0
    /\ wpc = <<>> /\ wname = <<>> /\ wentry = <<>>
    /\ succeeded = 0 /\ skipped = 0 /\ failed = 0
    /\ catalogUpdates = <<>>
    /\ savedTools = {} /\ bashSaved = {} /\ zshSaved = {}
    /\ catalogSaves = 0
    /\ taken = <<>> /\ resultsSent = <<>> /\ parsed = <<>>

NoTool == Tool("", <<>>, "", 0, "", <<>>, <<>>)
NoEntry == CatalogEntry(<<>>, "", "", NoHash, FALSE)
\* kind: "unparsed", "err" (Parse failed), "none", "skipped", "savefail",
\* "regen" (saved and reported with a success tag).
Outcome(kind, version, hash) == [kind |-> kind, Version |-> version, Hash |-> hash]
NotParsed == Outcome("unparsed", "", NoHash)

\* Generate, lines 34-82, for one choice of catalog file and options.
GenInit ==
    \E names \in {{}, ToolNames}, f \in BOOLEAN,
       optTool \in {""} \cup ToolNames \cup {NoSuchTool},
       requested \in WorkerRequests :
      \E cat \in [names -> UNION {CatalogEntries(n) : n \in ToolNames}] :
        LET known == optTool = "" \/ optTool \in names
            chosen == IF optTool = "" THEN names
                      ELSE IF optTool \in names THEN {optTool} ELSE {}
            run == names # {} /\ known
        IN  /\ \A n \in names : cat[n] \in CatalogEntries(n)
            /\ catalog = cat
            /\ catalog0 = cat
            /\ force = f
            /\ tools = chosen
            /\ workers = IF run THEN EffectiveWorkers(requested, Cardinality(chosen)) ELSE 0
            /\ mainPc = IF run THEN "spawn" ELSE "returned"
            /\ returnErr = (names # {} /\ ~known)
            /\ unsent = chosen
            /\ spawned = 0
            /\ toolChan = <<>> /\ toolChanClosed = FALSE
            /\ resultChan = <<>> /\ resultChanClosed = FALSE
            /\ closerStarted = FALSE
            /\ wg = 0
            /\ wpc = [w \in WorkerIds |-> "idle"]
            /\ wname = [w \in WorkerIds |-> ""]
            /\ wentry = [w \in WorkerIds |-> NoEntry]
            /\ succeeded = 0 /\ skipped = 0 /\ failed = 0
            /\ catalogUpdates = [n \in {} |-> NoEntry]
            /\ savedTools = {} /\ bashSaved = {} /\ zshSaved = {}
            /\ catalogSaves = 0
            /\ taken = [n \in ToolNames |-> 0]
            /\ resultsSent = [n \in ToolNames |-> 0]
            /\ parsed = [n \in ToolNames |-> NotParsed]
            /\ ParseIdle /\ HashIdle /\ ProbeIdle /\ FnIdle /\ ScanIdle /\ ManIdle /\ RunIdle /\ RcIdle

\* ------------------------------------------------- pipeline: Generate
\* Lines 86-92: start one worker goroutine.
Spawn ==
    /\ mainPc = "spawn"
    /\ spawned < workers
    /\ spawned' = spawned + 1
    /\ wg' = wg + 1
    /\ wpc' = [wpc EXCEPT ![spawned + 1] = "recv"]
    /\ mainPc' = IF spawned + 1 = workers THEN "send" ELSE "spawn"
    /\ UNCHANGED <<resultsSent, catalog0, catalog, force, tools, workers, unsent, toolChan,
                   toolChanClosed, resultChan, resultChanClosed, closerStarted,
                   wname, wentry, succeeded, skipped, failed,
                   catalogUpdates, savedTools, bashSaved, zshSaved,
                   catalogSaves, returnErr, taken, parsed>>
    /\ UNCHANGED nonGenVars

\* Lines 95-97: one iteration of the send loop (map order is unspecified).
SendTool ==
    /\ mainPc = "send"
    /\ unsent # {}
    /\ Len(toolChan) < ToolChanCap(Cardinality(tools))
    /\ \E n \in unsent :
         /\ toolChan' = Append(toolChan, n)
         /\ unsent' = unsent \ {n}
    /\ UNCHANGED <<resultsSent, catalog0, catalog, force, tools, workers, mainPc, spawned,
                   toolChanClosed, resultChan, resultChanClosed, closerStarted,
                   wg, wpc, wname, wentry, succeeded, skipped,
                   failed, catalogUpdates, savedTools, bashSaved, zshSaved,
                   catalogSaves, returnErr, taken, parsed>>
    /\ UNCHANGED nonGenVars

\* Lines 98-104: close(toolChan) and start the goroutine that closes results.
CloseToolChan ==
    /\ mainPc = "send"
    /\ unsent = {}
    /\ toolChanClosed' = TRUE
    /\ closerStarted' = TRUE
    /\ mainPc' = "collect"
    /\ UNCHANGED <<resultsSent, catalog0, catalog, force, tools, workers, spawned, unsent, toolChan,
                   resultChan, resultChanClosed, wg, wpc, wname, wentry,
                   succeeded, skipped, failed, catalogUpdates,
                   savedTools, bashSaved, zshSaved, catalogSaves, returnErr,
                   taken, parsed>>
    /\ UNCHANGED nonGenVars

\* Lines 101-104: wg.Wait(); close(resultChan).
CloseResultChan ==
    /\ closerStarted
    /\ ~resultChanClosed
    /\ WaitGroupDone(wg)
    /\ resultChanClosed' = TRUE
    /\ UNCHANGED <<resultsSent, catalog0, catalog, force, tools, workers, mainPc, spawned, unsent,
                   toolChan, toolChanClosed, resultChan, closerStarted, wg, wpc,
                   wname, wentry, succeeded, skipped, failed,
                   catalogUpdates, savedTools, bashSaved, zshSaved,
                   catalogSaves, returnErr, taken, parsed>>
    /\ UNCHANGED nonGenVars

\* Lines 123-128 and 143-148: the entry queued for a regenerated tool.
UpdatedEntry(entry, result) ==
    [entry EXCEPT !.Generated = TRUE,
                  !.Version = result.Version,
                  !.GeneratedVersion = result.GeneratedVersion,
                  !.ContentHash = result.ContentHash]

IsRegenerated(status) == status \in {"success", "version_changed", "hash_changed"}

\* Lines 113-150: one iteration of the collecting loop.
Collect ==
    /\ mainPc = "collect"
    /\ resultChan # <<>>
    /\ LET result == Head(resultChan)
       IN  /\ resultChan' = Tail(resultChan)
           /\ succeeded' = IF IsRegenerated(result.Status) THEN succeeded + 1 ELSE succeeded
           /\ skipped' = IF result.Status = "skipped" THEN skipped + 1 ELSE skipped
           /\ failed' = IF result.Status = "failed" THEN failed + 1 ELSE failed
           /\ catalogUpdates' =
                IF IsRegenerated(result.Status)
                THEN [n \in DOMAIN catalogUpdates \cup {result.Name} |->
                        IF n = result.Name
                        THEN UpdatedEntry(catalog[result.Name], result)
                        ELSE catalogUpdates[n]]
                ELSE catalogUpdates
    /\ UNCHANGED <<resultsSent, catalog0, catalog, force, tools, workers, mainPc, spawned, unsent,
                   toolChan, toolChanClosed, resultChanClosed, closerStarted,
                   wg, wpc, wname, wentry, savedTools,
                   bashSaved, zshSaved, catalogSaves, returnErr, taken, parsed>>
    /\ UNCHANGED nonGenVars

\* Lines 152-172: the range loop ends on the closed, drained channel; the
\* queued updates are applied and the catalog is saved (the save may fail).
ApplyAndSave ==
    /\ mainPc = "collect"
    /\ resultChan = <<>>
    /\ resultChanClosed
    /\ catalog' = [n \in DOMAIN catalog |->
                     IF n \in DOMAIN catalogUpdates THEN catalogUpdates[n] ELSE catalog[n]]
    /\ catalogSaves' = catalogSaves + 1
    /\ \E saveFails \in BOOLEAN : returnErr' = saveFails
    /\ mainPc' = "done"
    /\ UNCHANGED <<resultsSent, catalog0, force, tools, workers, spawned, unsent, toolChan,
                   toolChanClosed, resultChan, resultChanClosed, closerStarted,
                   wg, wpc, wname, wentry, succeeded, skipped,
                   failed, catalogUpdates, savedTools, bashSaved, zshSaved,
                   taken, parsed>>
    /\ UNCHANGED nonGenVars

\* ------------------------------------------------- pipeline: processTools
\* Line 194: the test that drops an unparseable tool.
IsUnparseableNever(tool) == FALSE
IsUnparseable(tool) == tool.Source = "none"

\* Lines 190, 229, 238, 247: after a failed result the loop continues.
AfterFailedReturn == "exited"
AfterFailed == "recv"

\* resultChan <- result, then the next iteration (or pcNext).  A send blocks
\* while the buffer is full and panics on a closed channel.
SendResult(w, result, pcNext) ==
    IF resultChanClosed
    THEN /\ wpc' = [wpc EXCEPT ![w] = "panic"]
         /\ resultChan' = resultChan
         /\ resultsSent' = resultsSent
    ELSE /\ Len(resultChan) < ResultChanCap(Cardinality(tools))
         /\ resultChan' = Append(resultChan, result)
         /\ resultsSent' = [resultsSent EXCEPT ![result.Name] = @ + 1]
         /\ wpc' = [wpc EXCEPT ![w] = pcNext]

\* Line 180: a channel receive removes the value it returns.
AfterReceivePeek(ch) == ch
AfterReceive(ch) == Tail(ch)

\* Lines 180-182: receive the next name and read its catalog entry.
WorkerRecv(w) ==
    /\ wpc[w] = "recv"
    /\ toolChan # <<>>
    /\ LET name == Head(toolChan)
       IN  /\ toolChan' = AfterReceive(toolChan)
           /\ wname' = [wname EXCEPT ![w] = name]
           /\ wentry' = [wentry EXCEPT ![w] = catalog[name]]
           /\ taken' = [taken EXCEPT ![name] = @ + 1]
    /\ wpc' = [wpc EXCEPT ![w] = "process"]
    /\ UNCHANGED <<resultsSent, catalog0, catalog, force, tools, workers, mainPc, spawned, unsent,
                   toolChanClosed, resultChan, resultChanClosed, closerStarted,
                   wg, succeeded, skipped, failed, catalogUpdates,
                   savedTools, bashSaved, zshSaved, catalogSaves, returnErr,
                   parsed>>
    /\ UNCHANGED nonGenVars

\* Line 180 on the closed, drained channel: the loop ends, wg.Done() runs.
WorkerExit(w) ==
    /\ wpc[w] = "recv"
    /\ toolChan = <<>>
    /\ toolChanClosed
    /\ wpc' = [wpc EXCEPT ![w] = "exited"]
    /\ wg' = wg - 1
    /\ UNCHANGED <<resultsSent, catalog0, catalog, force, tools, workers, mainPc, spawned, unsent,
                   toolChan, toolChanClosed, resultChan, resultChanClosed,
                   closerStarted, wname, wentry, succeeded,
                   skipped, failed, catalogUpdates, savedTools, bashSaved,
                   zshSaved, catalogSaves, returnErr, taken, parsed>>
    /\ UNCHANGED nonGenVars

\* Lines 224-253 after the skip decision: SaveTool, the two generators and
\* their saves.  failAt names the first storage call that returns an error
\* ("" when none does); the value is the result that is sent.
SaveAll(result, tool, contentHash, failAt) ==
    IF failAt = ""
    THEN [result EXCEPT !.Version = tool.Version,
                        !.GeneratedVersion = tool.Version,
                        !.ContentHash = contentHash]
    ELSE [result EXCEPT !.Status = "failed", !.Error = failAt]

\* Lines 182-253: the body of one loop iteration after the receive.
WorkerProcess(w) ==
    /\ wpc[w] = "process"
    /\ \E out \in ParseOutcomes(wname[w], wentry[w].Path),
          failAt \in {"", "save", "bash", "zsh"} :
         LET name == wname[w]
             tool == out.tool
             result == ToolResult(name, "", "", "", NoHash, "", "")
             contentHash == ContentHash(tool)
             status == Classify(force, wentry[w], tool.Version, contentHash)
             tagged == [result EXCEPT !.Status = status,
                                      !.Message = RegenMessage(status)]
             saving == ~out.err /\ ~IsUnparseable(tool) /\ status # "skipped"
             kind == IF out.err THEN "err"
                     ELSE IF tool.Source = "none" THEN "none"
                     ELSE IF ~saving THEN "skipped"
                     ELSE IF failAt # "" THEN "savefail" ELSE "regen"
         IN  /\ saving \/ failAt = ""
             /\ parsed' = [parsed EXCEPT ![name] =
                              IF out.err THEN Outcome(kind, "", NoHash)
                              ELSE Outcome(kind, tool.Version, contentHash)]
             /\ savedTools' = IF saving /\ failAt # "save"
                              THEN savedTools \cup {name} ELSE savedTools
             /\ bashSaved' = IF saving /\ failAt \in {"", "zsh"}
                             THEN bashSaved \cup {name} ELSE bashSaved
             /\ zshSaved' = IF saving /\ failAt = ""
                            THEN zshSaved \cup {name} ELSE zshSaved
             /\ IF out.err
                THEN SendResult(w, [result EXCEPT !.Status = "failed",
                                                  !.Error = "parse"], AfterFailed)
                ELSE IF IsUnparseable(tool)
                THEN /\ wpc' = [wpc EXCEPT ![w] = "recv"]
                     /\ resultChan' = resultChan
                     /\ resultsSent' = resultsSent
                ELSE IF status = "skipped"
                THEN SendResult(w, tagged, "recv")
                ELSE SendResult(w, SaveAll(tagged, tool, contentHash, failAt),
                                IF failAt = "" THEN "recv" ELSE AfterFailed)
    /\ wname' = [wname EXCEPT ![w] = ""]
    /\ wentry' = [wentry EXCEPT ![w] = NoEntry]
    /\ UNCHANGED <<catalog0, catalog, force, tools, workers, mainPc, spawned, unsent,
                   toolChan, toolChanClosed, resultChanClosed, closerStarted,
                   wg, succeeded, skipped, failed, catalogUpdates,
                   catalogSaves, returnErr, taken>>
    /\ UNCHANGED nonGenVars

GenNext ==
    \/ Spawn
    \/ SendTool
    \/ CloseToolChan
    \/ CloseResultChan
    \/ Collect
    \/ ApplyAndSave
    \/ \E w \in WorkerIds : WorkerRecv(w)
    \/ \E w \in WorkerIds : WorkerExit(w)
    \/ \E w \in WorkerIds : WorkerProcess(w)

GenSpec == GenInit /\ [][GenNext]_vars

\* ------------------------------------------------- pipeline: properties
Failing(n) == parsed[n].kind \in {"err", "savefail"}
Reported(n) == parsed[n].kind \in {"err", "skipped", "savefail", "regen"}
ResultsFor(n) == {i \in 1..Len(resultChan) : resultChan[i].Name = n}
Queued(n) == {i \in 1..Len(toolChan) : toolChan[i] = n}
WrittenFor(n) == n \in savedTools \cup bashSaved \cup zshSaved

\* C1: a tool parsed with a source other than none, without force, whose
\* cached generated-version and fingerprint equal the detected version and
\* the computed fingerprint, is skipped and nothing is written for it --
\* whatever the version string, the empty one included.
SkipWhenUnchanged ==
    \A n \in ToolNames :
        ( /\ parsed[n].kind \in {"skipped", "savefail", "regen"}
          /\ ~force
          /\ catalog0[n].GeneratedVersion = parsed[n].Version
          /\ catalog0[n].ContentHash = parsed[n].Hash )
        => ( /\ parsed[n].kind = "skipped"
             /\ ~WrittenFor(n)
             /\ n \notin DOMAIN catalogUpdates )

\* C2: a previously generated tool regenerated without force is tagged with
\* the mismatching field: version_changed whenever the cached
\* generated-version differs from the detected version, hash_changed exactly
\* when the versions are equal and the fingerprints differ.
RegenTagNamesMismatch ==
    \A i \in 1..Len(resultChan) :
        LET r == resultChan[i]
            e == catalog0[r.Name]
        IN  (~force /\ e.Generated /\ IsRegenerated(r.Status))
            => ( /\ (e.GeneratedVersion # r.Version) <=> (r.Status = "version_changed")
                 /\ (e.GeneratedVersion = r.Version /\ e.ContentHash # r.ContentHash)
                        <=> (r.Status = "hash_changed") )

\* C3: a tool whose Parse result has source none produces no result: it is
\* in none of the three totals, nothing is saved for it, no catalog update
\* is queued for it and its catalog entry stays as loaded.
NoneToolsLeaveNoTrace ==
    /\ \A n \in ToolNames :
          parsed[n].kind = "none"
          => ( /\ ~WrittenFor(n)
               /\ ResultsFor(n) = {}
               /\ n \notin DOMAIN catalogUpdates
               /\ catalog[n] = catalog0[n] )
    /\ succeeded + skipped + failed + Len(resultChan)
         = Cardinality({n \in ToolNames : Reported(n)})

NoneToolDone ==
    /\ mainPc = "done"
    /\ \E n, m \in tools : parsed[n].kind = "none" /\ parsed[m].kind = "regen"

\* C4: once one tool has failed (Parse error or a failed save), the run
\* still reaches its end with every tool of the queue taken once and brought
\* to its own outcome, and with every failed tool counted as failed.
AllBroughtToOutcome ==
    /\ \A m \in tools : parsed[m].kind # "unparsed" /\ taken[m] = 1
    /\ failed = Cardinality({m \in tools : Failing(m)})

FailuresAreIsolated ==
    /\ [](mainPc = "done" => AllBroughtToOutcome)
    /\ (\E n \in ToolNames : Failing(n)) ~> (mainPc = "done" /\ AllBroughtToOutcome)

FailureWithWorkPending ==
    /\ workers = 1
    /\ \E n, m \in tools : Failing(n) /\ parsed[m].kind = "unparsed" /\ taken[m] = 0

\* C5 as stated: every queued name is taken by exactly one worker and yields
\* at most one result, and the queue never grows once a worker has taken a
\* name.
NoEnqueueAfterProcessingStarts ==
    /\ [](\A n \in ToolNames : taken[n] <= 1 /\ resultsSent[n] <= 1)
    /\ [][(\E n \in ToolNames : taken[n] > 0) => Len(toolChan') <= Len(toolChan)]_vars

\* C5 as amended: the list of names is fixed before the workers start; each
\* name is in exactly one place (not yet sent, queued, or taken once) and
\* yields at most one result; only Generate's send loop enqueues, each name
\* of the list once and before the queue is closed; at the end every name
\* was taken exactly once.
NameInOnePlace(n) ==
    (IF n \in unsent THEN 1 ELSE 0) + Cardinality(Queued(n)) + taken[n] = 1

QueueTakenExactlyOnce ==
    /\ [](\A n \in tools : NameInOnePlace(n) /\ resultsSent[n] <= taken[n])
    /\ [](\A n \in ToolNames \ tools : Queued(n) = {} /\ taken[n] = 0)
    /\ [](mainPc = "done" => \A n \in tools : taken[n] = 1)
    /\ [][ /\ tools' = tools
           /\ Len(toolChan') > Len(toolChan)
                => ( /\ mainPc = "send"
                     /\ ~toolChanClosed
                     /\ \E n \in unsent : toolChan' = Append(toolChan, n) ) ]_vars

WorkerBusyWhileSending ==
    /\ mainPc = "send"
    /\ \E n, m \in tools : taken[n] = 1 /\ m \in unsent

\* C6: workers never find the result buffer full or closed, the result
\* channel is closed only after every started worker has exited, the catalog
\* is saved at most once and exactly once by the end, and every run ends.
PoolSafe ==
    /\ \A w \in WorkerIds :
          /\ wpc[w] # "panic"
          /\ wpc[w] = "process"
             => ~resultChanClosed /\ Len(resultChan) < ResultChanCap(Cardinality(tools))
    /\ resultChanClosed => \A w \in WorkerIds : wpc[w] \in {"idle", "exited"}
    /\ resultChanClosed => spawned = workers
    /\ catalogSaves <= 1
    /\ mainPc = "done" => catalogSaves = 1

GenerateTerminates ==
    /\ []PoolSafe
    /\ <>[](mainPc \in {"done", "returned"})

ResultBufferFull ==
    /\ Cardinality(tools) = NumTools
    /\ workers = NumTools
    /\ Len(resultChan) = NumTools

\* C7: the catalog changes only in the collecting side's final step, when
\* no worker is running, and only in the entries of tools whose result
\* arrived with a success tag, which get that result's version and
\* fingerprint.
CatalogWrittenOnlyByCollector ==
    [][ catalog' # catalog
        => ( /\ mainPc = "collect" /\ mainPc' = "done"
             /\ \A w \in WorkerIds : wpc[w] \in {"idle", "exited"}
             /\ DOMAIN catalog' = DOMAIN catalog
             /\ \A n \in DOMAIN catalog :
                   catalog'[n] # catalog[n]
                   => ( /\ parsed[n].kind = "regen"
                        /\ n \in DOMAIN catalogUpdates
                        /\ catalog'[n] =
                             CatalogEntry(catalog[n].Path, parsed[n].Version,
                                          parsed[n].Version, parsed[n].Hash, TRUE) ) )
      ]_vars

CatalogUpdatedAtEnd ==
    /\ mainPc = "done"
    /\ workers = NumTools
    /\ \A n \in tools : catalog[n] # catalog0[n]

\* The Go scheduler runs every runnable goroutine, and every probe and save
\* call returns: a step that stays possible is eventually taken.
FairGenSpec == GenSpec /\ WF_vars(GenNext)

\* ------------------------------------------------- fingerprint: ContentHash
\* Extracted trees the fingerprint is computed over: nothing, one global
\* flag, the same flag described, and a command carrying a nested flag with
\* argument choices.
\* described flag: -v "x"
DescribedContent ==
    [Subcommands |-> <<>>,
     GlobalFlags |-> <<Flag(<<"-", "v">>, <<>>, <<>>, <<>>, <<"x">>, FALSE)>>]
\* command "c" with flag --o taking a or b
NestedContent ==
    [Subcommands |->
        <<Command(<<"c">>, <<>>, <<>>, <<>>,
                  <<Flag(<<"-", "-", "o">>, <<>>, ValueArg,
                         <<<<"a">>, <<"b">>>>, <<>>, FALSE)>>)>>,
     GlobalFlags |-> <<>>]
HashContents == {EmptyContent, FlagsContent, DescribedContent, NestedContent}

ParseTimes == {0, 1}
HashSources == {"help", "man"}

HashTools ==
    {Tool(n, PathOf(n), v, at, src, c.Subcommands, c.GlobalFlags) :
        <<n, v, at, src, c>> \in
            ToolNames \X Versions \X ParseTimes \X HashSources \X HashContents}

HashInit ==
    /\ hA \in HashTools /\ hB \in HashTools
    /\ hashA = Nil /\ hashB = Nil
    /\ GenIdle /\ ParseIdle /\ ProbeIdle /\ FnIdle /\ ScanIdle /\ ManIdle /\ RunIdle /\ RcIdle

\* t.ContentHash() on the first Tool (types.go:42-60): the receiver is read,
\* never assigned.
ComputeHashA ==
    /\ hashA = Nil
    /\ hashA' = Some(ContentHash(hA))
    /\ UNCHANGED <<hA, hB, hashB, nonHashVars>>

\* t.ContentHash() on the second Tool.
ComputeHashB ==
    /\ hashB = Nil
    /\ hashB' = Some(ContentHash(hB))
    /\ UNCHANGED <<hA, hB, hashA, nonHashVars>>

HashNext == ComputeHashA \/ ComputeHashB

HashSpec == HashInit /\ [][HashNext]_vars

\* C8: ContentHash depends only on Subcommands and GlobalFlags: two Tools
\* that agree on both get the same fingerprint whatever their Name, Path,
\* Version, ParsedAt and Source are, and computing a fingerprint leaves both
\* Tools as they were.
SameContent(a, b) ==
    a.Subcommands = b.Subcommands /\ a.GlobalFlags = b.GlobalFlags

HashDependsOnlyOnContent ==
    /\ [](hashA # Nil /\ hashB # Nil /\ SameContent(hA, hB) => hashA = hashB)
    /\ [][hA' = hA /\ hB' = hB]_vars

\* Both fingerprints computed for two Tools with the same non-empty tree
\* that differ in name, path, version, timestamp and source.
SameTreeDifferentIdentity ==
    /\ hashA # Nil /\ hashB # Nil
    /\ SameContent(hA, hB) /\ hA.Subcommands # <<>>
    /\ hA.Name # hB.Name /\ hA.Path # hB.Path /\ hA.Version # hB.Version
    /\ hA.ParsedAt # hB.ParsedAt /\ hA.Source # hB.Source
    /\ hashA = hashB

\* ------------------------------------------------- extractor: Parse
ParsedName == NamePool[1]
ManKinds == {"text", "empty", "permErr", "otherErr"}

\* Every path of list indices that leads to a Command of the tree.
RECURSIVE PathsUnder(_, _)
PathsUnder(cmds, prefix) ==
    UNION {{prefix \o <<i>>} \cup PathsUnder(cmds[i].Subcommands, prefix \o <<i>>) :
              i \in DOMAIN cmds}

TreePaths(tool) == PathsUnder(tool.Subcommands, <<>>)

\* The two sibling lists of a node: the tool for the empty path.
FlagsAt(tool, path) ==
    IF path = <<>> THEN tool.GlobalFlags ELSE CommandAt(tool.Subcommands, path).Flags
CmdsAt(tool, path) == CommandsUnder(tool, path)

\* History: the entry a list first received under each name.
RECURSIVE NoteFirst(_, _, _)
NoteFirst(known, path, found) ==
    IF found = <<>> THEN known
    ELSE NoteFirst(IF \E e \in known : e[1] = path /\ e[2].Name = Head(found).Name
                   THEN known ELSE known \cup {<<path, Head(found)>>},
                   path, Tail(found))

\* The scanning locals as they stand, over the two lists being filled.
CurScan(flags, cmds) ==
    Scan(inCommands, inOptions, flags, cmds, flagSeen, cmdSeen, currentFlag, dropped)

\* The locals and the histories after a loop body ran over the lists of path.
CommitScan(st, path) ==
    /\ inCommands' = st.inCommands /\ inOptions' = st.inOptions
    /\ flagSeen' = st.flagSeen /\ cmdSeen' = st.cmdSeen
    /\ currentFlag' = st.currentFlag
    /\ dropped' = st.dropped
    /\ firstCmds' = NoteFirst(firstCmds, path, st.xCmds)

\* Parse, lines 108-196, up to the first text to scan: the configuration
\* from New, the outcome of the version, help and man probes.
ParseInit ==
    \E cfg \in -1..MaxConfigDepth, help \in BOOLEAN, man \in ManKinds,
       v \in Versions :
        /\ pMaxDepth = EffectiveMaxDepth(cfg)
        /\ pHelpGiven = help
        /\ pManKind = man
        /\ pBudget = MaxTextLines
        /\ pTool = Tool(ParsedName, PathOf(ParsedName), v, 0,
                        IF help THEN "help"
                        ELSE IF man = "permErr" THEN "help-only"
                        ELSE IF man = "text" THEN "man" ELSE "",
                        <<>>, <<>>)
        /\ pPhase = IF help THEN "help" ELSE IF man = "text" THEN "man" ELSE "source"
        /\ inCommands = FALSE /\ inOptions = FALSE
        /\ flagSeen = {} /\ cmdSeen = {} /\ currentFlag = 0
        /\ pStack = <<>> /\ pTarget = <<>> /\ probed = {}
        /\ firstFlags = {} /\ firstCmds = {} /\ dropped = {}
        /\ GenIdle /\ HashIdle /\ ProbeIdle /\ FnIdle /\ ScanIdle /\ ManIdle /\ RunIdle /\ RcIdle

\* parseHelpOutput: one more line of the help text.
HelpLine ==
    /\ pPhase = "help" /\ pBudget > 0
    /\ \E line \in HelpLines :
        LET st == HelpLineStep(CurScan(pTool.GlobalFlags, pTool.Subcommands), line)
        IN  /\ pTool' = [pTool EXCEPT !.GlobalFlags = st.flags, !.Subcommands = st.cmds]
            /\ CommitScan(st, <<>>)
            /\ firstFlags' = NoteFirst(firstFlags, <<>>, st.xFlags)
    /\ pBudget' = pBudget - 1
    /\ UNCHANGED <<pMaxDepth, pPhase, pManKind, pHelpGiven, pStack, pTarget, probed>>
    /\ UNCHANGED nonParseVars

\* Parse, lines 189-197: the help text is exhausted; a man page, if one was
\* read, is scanned next with a flag set built from the flags found so far.
HelpEnd ==
    /\ pPhase = "help"
    /\ IF pManKind = "text"
       THEN /\ pPhase' = "man"
            /\ pTool' = [pTool EXCEPT !.Source = "both"]
            /\ flagSeen' = SeenKeys(pTool.GlobalFlags)
       ELSE /\ pPhase' = "source"
            /\ UNCHANGED <<pTool, flagSeen>>
    /\ inCommands' = FALSE /\ inOptions' = FALSE /\ currentFlag' = 0
    /\ UNCHANGED <<pMaxDepth, pBudget, pManKind, pHelpGiven, cmdSeen, pStack,
                   pTarget, probed, firstFlags, firstCmds, dropped>>
    /\ UNCHANGED nonParseVars

\* parseManPage: one more line of the man page.  A continuation line fills
\* the empty description of the flag currentFlag points to.
ManLine ==
    /\ pPhase = "man" /\ pBudget > 0
    /\ \E line \in ManLines :
        LET st == ManLineStep(CurScan(pTool.GlobalFlags, pTool.Subcommands), line)
            k == st.currentFlag
            continued == Len(st.flags) = Len(pTool.GlobalFlags)
                         /\ st.flags # pTool.GlobalFlags
        IN  /\ pTool' = [pTool EXCEPT !.GlobalFlags = st.flags]
            /\ CommitScan(st, <<>>)
            /\ firstFlags' =
                 IF continued
                 THEN {IF e[1] = <<>> /\ e[2].Name = st.flags[k].Name
                       THEN <<e[1], [e[2] EXCEPT !.Description = st.flags[k].Description]>>
                       ELSE e : e \in firstFlags}
                 ELSE NoteFirst(firstFlags, <<>>, st.xFlags)
    /\ pBudget' = pBudget - 1
    /\ UNCHANGED <<pMaxDepth, pPhase, pManKind, pHelpGiven, pStack, pTarget, probed>>
    /\ UNCHANGED nonParseVars

\* parseManPage returns.
ManEnd ==
    /\ pPhase = "man"
    /\ pPhase' = "source"
    /\ inOptions' = FALSE /\ currentFlag' = 0
    /\ UNCHANGED <<pMaxDepth, pBudget, pTool, pManKind, pHelpGiven, inCommands,
                   flagSeen, cmdSeen, pStack, pTarget, probed, firstFlags,
                   firstCmds, dropped>>
    /\ UNCHANGED nonParseVars

\* A call parseNestedSubcommands(_, commands, depth) for the n children of
\* path: it returns at once at the depth limit, else it starts its loop.
EnterNested(stack, path, depth, n) ==
    IF DepthReached(depth, pMaxDepth) THEN stack
    ELSE Append(stack, [path |-> path, i |-> 1, n |-> n, depth |-> depth])

\* Parse, lines 199-214: the source falls back to none, and the top-level
\* commands are explored from depth 1.
FinishSource ==
    /\ pPhase = "source"
    /\ pTool' = [pTool EXCEPT !.Source = IF @ = "" THEN "none" ELSE @]
    /\ pStack' = IF Len(pTool.Subcommands) > 0
                 THEN EnterNested(<<>>, <<>>, 1, Len(pTool.Subcommands))
                 ELSE <<>>
    /\ pPhase' = IF pStack' = <<>> THEN "done" ELSE "explore"
    /\ UNCHANGED <<pMaxDepth, pBudget, pManKind, pHelpGiven, inCommands, inOptions,
                   flagSeen, cmdSeen, currentFlag, pTarget, probed, firstFlags,
                   firstCmds, dropped>>
    /\ UNCHANGED nonParseVars

\* parseNestedSubcommands, lines 228-238: the next command of the innermost
\* loop is probed; an empty output moves on, a non-empty one is scanned
\* with sets built from the command's own lists.
Probe ==
    /\ pPhase = "explore" /\ pStack # <<>>
    /\ LET top == pStack[Len(pStack)]
           path == top.path \o <<top.i>>
           cmd == CommandAt(pTool.Subcommands, path)
       IN  /\ top.i <= top.n
           /\ probed' = probed \cup {path}
           /\ \E hasOutput \in BOOLEAN :
                IF hasOutput
                THEN /\ pPhase' = "sub"
                     /\ pTarget' = path
                     /\ flagSeen' = SeenKeys(cmd.Flags)
                     /\ cmdSeen' = SeenKeys(cmd.Subcommands)
                     /\ inCommands' = FALSE /\ inOptions' = FALSE
                     /\ UNCHANGED pStack
                ELSE /\ pStack' = [pStack EXCEPT ![Len(pStack)].i = @ + 1]
                     /\ UNCHANGED <<pPhase, pTarget, flagSeen, cmdSeen,
                                    inCommands, inOptions>>
    /\ UNCHANGED <<pMaxDepth, pBudget, pTool, pManKind, pHelpGiven, currentFlag,
                   firstFlags, firstCmds, dropped>>
    /\ UNCHANGED nonParseVars

\* parseSubcommandOutput: one more line of a subcommand's help text.
SubLine ==
    /\ pPhase = "sub" /\ pBudget > 0
    /\ \E line \in SubHelpLines :
        LET cmd == CommandAt(pTool.Subcommands, pTarget)
            st == SubLineStep(CurScan(cmd.Flags, cmd.Subcommands), line)
            filled == [cmd EXCEPT !.Flags = st.flags, !.Subcommands = st.cmds]
        IN  /\ pTool' = [pTool EXCEPT
                           !.Subcommands = WithCommandAt(@, pTarget, filled)]
            /\ CommitScan(st, pTarget)
            /\ firstFlags' = NoteFirst(firstFlags, pTarget, st.xFlags)
    /\ pBudget' = pBudget - 1
    /\ UNCHANGED <<pMaxDepth, pPhase, pManKind, pHelpGiven, pStack, pTarget, probed>>
    /\ UNCHANGED nonParseVars

\* parseNestedSubcommands, lines 240-245: the text is exhausted; the
\* command's own subcommands are explored one level deeper, then the loop
\* goes on with the next sibling.
SubEnd ==
    /\ pPhase = "sub"
    /\ LET cmd == CommandAt(pTool.Subcommands, pTarget)
           top == pStack[Len(pStack)]
           next == [pStack EXCEPT ![Len(pStack)].i = @ + 1]
       IN  pStack' = IF Len(cmd.Subcommands) > 0
                     THEN EnterNested(next, pTarget, top.depth + 1,
                                      Len(cmd.Subcommands))
                     ELSE next
    /\ pPhase' = "explore"
    /\ inCommands' = FALSE /\ inOptions' = FALSE
    /\ UNCHANGED <<pMaxDepth, pBudget, pTool, pManKind, pHelpGiven, flagSeen,
                   cmdSeen, currentFlag, pTarget, probed, firstFlags, firstCmds,
                   dropped>>
    /\ UNCHANGED nonParseVars

\* parseNestedSubcommands, line 246: the innermost loop is over and the call
\* returns; Parse returns the tool when the outermost call does.
Return ==
    /\ pPhase = "explore" /\ pStack # <<>>
    /\ pStack[Len(pStack)].i > pStack[Len(pStack)].n
    /\ pStack' = SubSeq(pStack, 1, Len(pStack) - 1)
    /\ pPhase' = IF Len(pStack) = 1 THEN "done" ELSE "explore"
    /\ UNCHANGED <<pMaxDepth, pBudget, pTool, pManKind, pHelpGiven, inCommands,
                   inOptions, flagSeen, cmdSeen, currentFlag, pTarget, probed,
                   firstFlags, firstCmds, dropped>>
    /\ UNCHANGED nonParseVars

ParseNext ==
    \/ HelpLine
    \/ HelpEnd
    \/ ManLine
    \/ ManEnd
    \/ FinishSource
    \/ Probe
    \/ SubLine
    \/ SubEnd
    \/ Return

ParseSpec == ParseInit /\ [][ParseNext]_vars

\* Every text is finite and every probe returns: Parse keeps running.
FairParseSpec == ParseSpec /\ WF_vars(ParseNext)

\* ------------------------------------------------- extractor: properties
\* The nodes that own sibling lists: the tool and every Command of its tree.
ListOwners == {<<>>} \cup TreePaths(pTool)

DistinctNames(items) ==
    \A i, j \in DOMAIN items : i # j => items[i].Name # items[j].Name

\* What a Command entry is apart from the lists filled by exploring it.
Extracted(c) == [Name |-> c.Name, Aliases |-> c.Aliases, Description |-> c.Description]

\* Each list holds exactly the entries first extracted under their names.
FirstEntriesKept ==
    \A path \in ListOwners :
        /\ \A i \in DOMAIN FlagsAt(pTool, path) :
              <<path, FlagsAt(pTool, path)[i]>> \in firstFlags
        /\ \A i \in DOMAIN CmdsAt(pTool, path) :
              \E e \in firstCmds :
                  e[1] = path /\ Extracted(e[2]) = Extracted(CmdsAt(pTool, path)[i])
        /\ Cardinality({e \in firstFlags : e[1] = path}) = Len(FlagsAt(pTool, path))
        /\ Cardinality({e \in firstCmds : e[1] = path}) = Len(CmdsAt(pTool, path))

\* C9: whatever help, man and subcommand help text is parsed, every sibling
\* list (the tool's Subcommands and GlobalFlags, each Command's Subcommands
\* and Flags) has pairwise distinct names, and an entry extracted again
\* under a name the list already has is discarded: the list keeps the entry
\* it received first, unmerged.
SiblingNamesUnique ==
    /\ \A path \in ListOwners :
          /\ DistinctNames(FlagsAt(pTool, path))
          /\ DistinctNames(CmdsAt(pTool, path))
    /\ FirstEntriesKept

\* Parse has returned after discarding a repeated flag and a repeated
\* command, with a flag list filled below the top level.
DuplicatesDiscarded ==
    /\ pPhase = "done"
    /\ dropped = {"flag", "cmd"}
    /\ \E path \in TreePaths(pTool) : FlagsAt(pTool, path) # <<>>

Max(a, b) == IF a >= b THEN a ELSE b

ProbesWithinDepth == \A path \in probed : Len(path) < pMaxDepth

TreeWithinDepth ==
    \A path \in TreePaths(pTool) : Len(path) <= Max(1, pMaxDepth)

DefaultDepthProbesTopLevelOnly ==
    pMaxDepth = EffectiveMaxDepth(0) =>
        /\ \A path \in probed : Len(path) = 1
        /\ \A path \in TreePaths(pTool) : Len(path) <= 2

\* C10: exploration is depth-bounded and terminates.  With maximum depth D
\* and top-level commands at depth 1, no help probe is issued for a command
\* at depth D or deeper, whatever nesting the tool reports; with the default
\* D = 2 only top-level commands are probed and the tree has at most one
\* level below the top level; and Parse returns.
ExplorationBounded ==
    /\ [](ProbesWithinDepth /\ TreeWithinDepth /\ DefaultDepthProbesTopLevelOnly)
    /\ <>(pPhase = "done")

\* Parse has returned with the default depth after probing a top-level
\* command that reported subcommands of its own, none of which was probed.
NestedReportedNotProbed ==
    /\ pPhase = "done"
    /\ pMaxDepth = 2
    /\ \E path \in TreePaths(pTool) : Len(path) = 2 /\ path \notin probed
    /\ probed # {}

\* ------------------------------------------------- version detection
AlnumDot == Digits \cup Range(LowerCase) \cup Range(UpperCase) \cup {"."}

\* The index after the longest run of characters of class starting at i.
RECURSIVE RunEnd(_, _, _)
RunEnd(s, i, class) ==
    IF i <= Len(s) /\ s[i] \in class THEN RunEnd(s, i + 1, class) ELSE i

\* An optional group: sep followed by a non-empty run of class, at i.
OptionalRun(s, i, seps, class) ==
    IF i <= Len(s) /\ s[i] \in seps /\ RunEnd(s, i + 1, class) > i + 1
    THEN RunEnd(s, i + 1, class) ELSE i

\* \d+\.\d+ at i: the index after it, or 0 when it does not match there.
MajorMinorEnd(s, i) ==
    IF /\ RunEnd(s, i, Digits) > i
       /\ RunEnd(s, i, Digits) <= Len(s)
       /\ s[RunEnd(s, i, Digits)] = "."
       /\ RunEnd(s, RunEnd(s, i, Digits) + 1, Digits) > RunEnd(s, i, Digits) + 1
    THEN RunEnd(s, RunEnd(s, i, Digits) + 1, Digits) ELSE 0

\* The group (\d+\.\d+(?:\.\d+)?(?:[-+][a-zA-Z0-9.]+)?) at i: the index
\* after it, or 0.
SemverEnd(s, i) ==
    IF MajorMinorEnd(s, i) = 0 THEN 0
    ELSE OptionalRun(s, OptionalRun(s, MajorMinorEnd(s, i), {"."}, Digits),
                     {"-", "+"}, AlnumDot)

\* The group (\d+\.\d+(?:\.\d+)?) at i: the index after it, or 0.
PlainVersionEnd(s, i) ==
    IF MajorMinorEnd(s, i) = 0 THEN 0
    ELSE OptionalRun(s, MajorMinorEnd(s, i), {"."}, Digits)

\* FindStringSubmatch of (?i)(?:version\s+)?v?(GROUP): the label and the v
\* are optional and outside the group, so the leftmost match captures the
\* leftmost place where the group matches. Nil when there is no match.
RECURSIVE SemverMatchFrom(_, _)
SemverMatchFrom(line, i) ==
    IF i > Len(line) THEN Nil
    ELSE IF SemverEnd(line, i) > 0 THEN Some(SubSeq(line, i, SemverEnd(line, i) - 1))
    ELSE SemverMatchFrom(line, i + 1)

SemverPattern(line) == SemverMatchFrom(line, 1)

\* FindStringSubmatch of (?m)^(GROUP) on a text without line breaks.
LineStartPattern(line) ==
    IF PlainVersionEnd(line, 1) > 0
    THEN Some(SubSeq(line, 1, PlainVersionEnd(line, 1) - 1)) ELSE Nil

MaxVersionLine == 50

\* extractVersion, lines 79-93, from firstLine on.
VersionOfFirstLine(firstLine) ==
    IF ~SemverPattern(firstLine).nil THEN SemverPattern(firstLine).val
    ELSE IF ~LineStartPattern(firstLine).nil THEN LineStartPattern(firstLine).val
    ELSE IF Len(firstLine) < MaxVersionLine /\ Len(firstLine) > 0
         THEN TrimSpace(firstLine)
    ELSE <<>>

WholeOutput(output) == TrimSpace(output)
FirstLineOf(output) == Split(TrimSpace(output), <<"\n">>)[1]

extractVersion(output) == VersionOfFirstLine(FirstLineOf(output))

\* ------------------------------------------------- probes: inputs
\* Parse's arguments as the validation of lines 108-132 sees them.
InputKinds ==
    {"valid", "emptyName", "emptyPath", "missing", "statError", "directory",
     "noExecuteBit"}

\* prInput: the arguments, and whether the OS lets this user execute the
\* file (a file can carry an execute bit this user may not use).
ProbeInputs ==
    {[kind |-> k, access |-> a] :
        k \in InputKinds, a \in {"granted", "denied"}}

\* Parse, lines 108-132: the argument is refused.
InputErrorNever(kind) == FALSE
InputError(kind) == kind # "valid"

\* cfg.VersionCmds as DefaultConfig and New set it.
VersionCmds == <<"--version", "-V", "version", "-v">>

\* What a child process can do. err is what CombinedOutput returns:
\* "nil", "exit" (non-zero exit status), "permission" (fork/exec: permission
\* denied), "killed" (the deadline of ctx passed while it ran), "ctx" (ctx
\* was done before the process could start).
ProcessKinds == {"okOutput", "okEmpty", "errOutput", "errEmpty", "hang"}

ErrOf(kind) ==
    CASE kind \in {"okOutput", "okNoVersion", "okEmpty"} -> "nil"
      [] kind \in {"errOutput", "errEmpty"} -> "exit"
      [] kind = "hang" -> "killed"
      [] kind = "denied" -> "permission"
      [] kind = "notStarted" -> "ctx"

\* The outcomes of cmd.CombinedOutput() for exec.CommandContext(ctx, ...).
ExecKinds(access, ctxExpired, kinds) ==
    IF ctxExpired THEN {"notStarted"}
    ELSE IF access = "denied" THEN {"denied"}
    ELSE kinds

\* The text a version probe prints: a banner naming the version, or a
\* banner of MaxVersionLine characters without any number.
VersionBanner ==
    <<"t", "o", "o", "l", " ", "v", "e", "r", "s", "i", "o", "n", " ",
      "1", ".", "0", "\n", "b", "u", "i", "l", "t", " ", "2", ".", "5">>
LongBanner == [i \in 1..MaxVersionLine |-> "x"]

VersionOutput(kind) ==
    CASE kind \in {"okOutput", "errOutput"} -> VersionBanner
      [] kind = "okNoVersion" -> LongBanner
      [] OTHER -> <<>>

\* The text a help probe prints names the invocation that printed it.
HelpOutput(arg, kind) ==
    IF kind \in {"okOutput", "errOutput"}
    THEN <<"U", "s", "a", "g", "e", ":", " ">> \o <<arg>> ELSE <<>>

\* One entry of prLog. live: ctx was not done when the call was made.
Invocation(fn, arg, kind, output, live) ==
    [fn |-> fn, arg |-> arg, kind |-> kind, output |-> output, live |-> live]

\* isPermissionError, lines 725-742, over the err values above.
isPermissionError(err) == err = "permission"

ManProcessKinds == {"okOutput", "okEmpty", "errEmpty"}

\* The Source Parse settles on, lines 165-203.
SourceOf(helpOutput, manOutput, manErr) ==
    IF helpOutput # <<>>
    THEN (IF manOutput # <<>> THEN "both" ELSE "help")
    ELSE IF manOutput # <<>>
         THEN (IF isPermissionError(manErr) THEN "both" ELSE "man")
    ELSE IF isPermissionError(manErr) THEN "help-only"
    ELSE "none"

\* The locals of Parse: err is the error Parse returns, "" for nil.
ParseLocals(version, helpOutput, helpErr, manOutput, manErr, source, subOutput, err) ==
    [version |-> version, helpOutput |-> helpOutput, helpErr |-> helpErr,
     manOutput |-> manOutput, manErr |-> manErr, source |-> source,
     subOutput |-> subOutput, err |-> err]

NoLocals == ParseLocals(<<>>, <<>>, "nil", <<>>, "nil", "", <<>>, "")

\* ------------------------------------------------- probes: Parse and its probes
\* A call of Parse on some arguments, before its first statement.
ProbeInit ==
    /\ prInput \in ProbeInputs
    /\ prPc = "validate" /\ prVerIdx = 1 /\ prCtxExpired = FALSE
    /\ prLog = <<>> /\ prOut = NoLocals
    /\ GenIdle /\ ParseIdle /\ HashIdle /\ FnIdle /\ ScanIdle /\ ManIdle /\ RunIdle /\ RcIdle

\* Parse, lines 108-141.
Validate ==
    /\ prPc = "validate"
    /\ IF InputError(prInput.kind)
       THEN prPc' = "returned" /\ prOut' = [prOut EXCEPT !.err = prInput.kind]
       ELSE prPc' = "version" /\ UNCHANGED prOut
    /\ UNCHANGED <<prInput, prVerIdx, prCtxExpired, prLog>>
    /\ UNCHANGED nonProbeVars

\* tryVersionFlagWithTimeout, lines 40-52, for a process behaving as kind.
tryVersionFlagWithTimeout(kind) ==
    IF ErrOf(kind) # "nil" THEN <<>> ELSE extractVersion(VersionOutput(kind))

VersionProcessKinds == {"okOutput", "okNoVersion", "okEmpty", "errOutput", "hang"}

\* detectVersionWithConfig, lines 28-37: one turn of the loop. Every call
\* of tryVersionFlagWithTimeout makes a ctx of its own.
VersionProbe ==
    /\ prPc = "version"
    /\ \E kind \in ExecKinds(prInput.access, FALSE, VersionProcessKinds) :
        /\ prLog' = Append(prLog, Invocation("detectVersion", VersionCmds[prVerIdx],
                                             kind, VersionOutput(kind), TRUE))
        /\ IF tryVersionFlagWithTimeout(kind) # <<>> \/ prVerIdx = Len(VersionCmds)
           THEN /\ prOut' = [prOut EXCEPT !.version = tryVersionFlagWithTimeout(kind)]
                /\ prPc' = "help"
                /\ UNCHANGED prVerIdx
           ELSE /\ prVerIdx' = prVerIdx + 1
                /\ UNCHANGED <<prOut, prPc>>
    /\ UNCHANGED <<prInput, prCtxExpired>>
    /\ UNCHANGED nonProbeVars

\* Parse, lines 152-161, on what runHelp returned.
AfterRunHelp(output, helpErr) ==
    IF helpErr # "nil" /\ isPermissionError(helpErr)
    THEN /\ prPc' = "returned"
         /\ prOut' = [prOut EXCEPT !.helpErr = helpErr, !.err = "cannot run --help"]
    ELSE /\ prPc' = "man"
         /\ prOut' = [prOut EXCEPT !.helpOutput = output, !.helpErr = helpErr]

\* The fallback condition of runHelp, lines 333-341, and of
\* runSubcommandHelp, line 259.
NeedsFallback(kind, output) == ErrOf(kind) # "nil" /\ output = <<>>

\* runHelp, lines 328-337: the --help process.
HelpProbe ==
    /\ prPc = "help"
    /\ \E kind \in ExecKinds(prInput.access, FALSE, ProcessKinds) :
        /\ prLog' = Append(prLog, Invocation("runHelp", "--help", kind,
                                             HelpOutput("--help", kind), TRUE))
        /\ IF NeedsFallback(kind, HelpOutput("--help", kind))
           THEN /\ prPc' = "helpFallback"
                /\ prCtxExpired' = (kind = "hang")
                /\ UNCHANGED prOut
           ELSE /\ AfterRunHelp(HelpOutput("--help", kind), "nil")
                /\ UNCHANGED prCtxExpired
    /\ UNCHANGED <<prInput, prVerIdx>>
    /\ UNCHANGED nonProbeVars

\* runHelp, lines 338-342: the -h process, under the ctx of line 328.
HelpFallback ==
    /\ prPc = "helpFallback"
    /\ \E kind \in ExecKinds(prInput.access, prCtxExpired, ProcessKinds) :
        /\ prLog' = Append(prLog, Invocation("runHelp", "-h", kind,
                                             HelpOutput("-h", kind), ~prCtxExpired))
        /\ AfterRunHelp(HelpOutput("-h", kind), "nil")
    /\ prCtxExpired' = FALSE
    /\ UNCHANGED <<prInput, prVerIdx>>
    /\ UNCHANGED nonProbeVars

ManText == <<"N", "A", "M", "E">>
ManOutput(kind) == IF kind = "okOutput" THEN ManText ELSE <<>>

\* getManPage, lines 346-357, and Parse, lines 170-217. Only a help text
\* can list commands, so only it can lead to parseNestedSubcommands.
ManProbe ==
    /\ prPc = "man"
    /\ \E kind \in ManProcessKinds \cup {"denied"} :
        /\ prLog' = Append(prLog, Invocation("getManPage", "man", kind,
                                             ManOutput(kind), TRUE))
        /\ prOut' = [prOut EXCEPT !.manOutput = ManOutput(kind),
                                  !.manErr = ErrOf(kind),
                                  !.source = SourceOf(prOut.helpOutput, ManOutput(kind),
                                                      ErrOf(kind))]
    /\ \E explore \in {FALSE, prOut.helpOutput # <<>>} :
        prPc' = IF explore THEN "sub" ELSE "returned"
    /\ UNCHANGED <<prInput, prVerIdx, prCtxExpired>>
    /\ UNCHANGED nonProbeVars

\* runSubcommandHelp, lines 250-258: the "<command> --help" process.
SubProbe ==
    /\ prPc = "sub"
    /\ \E kind \in ExecKinds(prInput.access, FALSE, ProcessKinds) :
        /\ prLog' = Append(prLog, Invocation("runSubcommandHelp", "<command> --help", kind,
                                             HelpOutput("<command> --help", kind), TRUE))
        /\ IF NeedsFallback(kind, HelpOutput("<command> --help", kind))
           THEN /\ prPc' = "subFallback"
                /\ prCtxExpired' = (kind = "hang")
                /\ UNCHANGED prOut
           ELSE /\ prPc' = "returned"
                /\ prOut' = [prOut EXCEPT !.subOutput = HelpOutput("<command> --help", kind)]
                /\ UNCHANGED prCtxExpired
    /\ UNCHANGED <<prInput, prVerIdx>>
    /\ UNCHANGED nonProbeVars

\* runSubcommandHelp, lines 260-265: the "help <command>" process, under
\* the ctx of line 250.
SubFallback ==
    /\ prPc = "subFallback"
    /\ \E kind \in ExecKinds(prInput.access, prCtxExpired, ProcessKinds) :
        /\ prLog' = Append(prLog, Invocation("runSubcommandHelp", "help <command>", kind,
                                             HelpOutput("help <command>", kind),
                                             ~prCtxExpired))
        /\ prOut' = [prOut EXCEPT !.subOutput = HelpOutput("help <command>", kind)]
    /\ prPc' = "returned"
    /\ prCtxExpired' = FALSE
    /\ UNCHANGED <<prInput, prVerIdx>>
    /\ UNCHANGED nonProbeVars

ProbeNext ==
    \/ Validate
    \/ VersionProbe
    \/ HelpProbe
    \/ HelpFallback
    \/ ManProbe
    \/ SubProbe
    \/ SubFallback

ProbeSpec == ProbeInit /\ [][ProbeNext]_vars

\* ------------------------------------------------- probes: properties
\* The prLog entries of the probe function fn, in order.
CallsOf(fn) == SelectSeq(prLog, LAMBDA e : e.fn = fn)
Returned == prPc = "returned"
ReturnedError == Returned /\ prOut.err # ""
ReturnedTool == Returned /\ prOut.err = ""

\* C11: when the OS denies running the tool's help probe with a permission
\* error, Parse returns an error for the tool and no Tool.
HelpProbeDeniedIsError ==
    (Returned /\ \E i \in DOMAIN prLog :
                    /\ prLog[i].fn = "runHelp"
                    /\ isPermissionError(ErrOf(prLog[i].kind)))
        => ReturnedError

\* C12: an empty name, an empty path, a missing path, a directory and a
\* file without execute bit make Parse return an error, and no version,
\* help or man process was started for them.
InvalidInputRejectedBeforeProbes ==
    prInput.kind # "valid"
        => /\ prLog = <<>>
           /\ prPc \in {"validate", "returned"}
           /\ Returned => ReturnedError

DirectoryRejected ==
    ReturnedError /\ prInput.kind = "directory" /\ prLog = <<>>

\* C13: the version comes from the first version probe that printed
\* anything: no later argument is run after it, and the detected version
\* is what extractVersion makes of that output, be it empty.
FirstOutputSettlesVersion ==
    \A i \in DOMAIN CallsOf("detectVersion") :
        CallsOf("detectVersion")[i].output # <<>>
            => /\ i = Len(CallsOf("detectVersion"))
               /\ prPc # "version"
                    => prOut.version = extractVersion(CallsOf("detectVersion")[i].output)

\* ------------------------------------------------- extractVersion: one call
\* First lines a version probe prints.
\*   'tool version 1.2.3'
\*   'v2.0-rc.1 (abc)'
\*   '1.2.3.4'
\*   'git 2 x'
\*   'unknown '
\*   'dev\r'
\*   '1.x 3.4+b'
\*   '5.'
\*   ''
ShortFirstLines ==
    {<<"t", "o", "o", "l", " ", "v", "e", "r", "s", "i", "o", "n", " ", "1", ".", "2", ".", "3">>,
     <<"v", "2", ".", "0", "-", "r", "c", ".", "1", " ", "(", "a", "b", "c", ")">>,
     <<"1", ".", "2", ".", "3", ".", "4">>,
     <<"g", "i", "t", " ", "2", " ", "x">>,
     <<"u", "n", "k", "n", "o", "w", "n", " ">>,
     <<"d", "e", "v", "\r">>,
     <<"1", ".", "x", " ", "3", ".", "4", "+", "b">>,
     <<"5", ".">>,
     <<>>}

\* Lines at the length limit of the short-line rule: one below it, at it,
\* and at it with a version at the end.
LimitFirstLines ==
    {[i \in 1..(MaxVersionLine - 1) |-> "x"],
     [i \in 1..MaxVersionLine |-> "x"],
     [i \in 1..(MaxVersionLine - 1) |-> "x"] \o <<" ", "1", ".", "0">>}

\* What precedes the first line.
\*   ''
\*   ' '
\*   '\n'
LeadingBlanks ==
    {<<>>,
     <<" ">>,
     <<"\n">>}
\* What follows the first line.
\*   ''
\*   '\n2.0'
\*   '\nzz\n'
LaterLines ==
    {<<>>,
     <<"\n", "2", ".", "0">>,
     <<"\n", "z", "z", "\n">>}

VersionOutputs ==
    {lead \o first \o later :
        lead \in LeadingBlanks, first \in ShortFirstLines \cup LimitFirstLines,
        later \in LaterLines}

ExtractInit ==
    /\ fnArg \in VersionOutputs /\ fnRes = Nil
    /\ GenIdle /\ ParseIdle /\ HashIdle /\ ProbeIdle /\ ScanIdle /\ ManIdle /\ RunIdle /\ RcIdle

\* extractVersion(output), lines 65-94.
ExtractVersion ==
    /\ fnRes = Nil
    /\ fnRes' = Some(extractVersion(fnArg))
    /\ UNCHANGED fnArg
    /\ UNCHANGED nonFnVars

ExtractSpec == ExtractInit /\ [][ExtractVersion]_vars

\* ------------------------------------------------- extractVersion: properties
\* The text before the first line break of the trimmed output.
LeadingLine(output) ==
    IF Index(TrimSpace(output), <<"\n">>) < 0 THEN TrimSpace(output)
    ELSE SubSeq(TrimSpace(output), 1, Index(TrimSpace(output), <<"\n">>))

PatternVersion(line) ==
    IF ~SemverPattern(line).nil THEN SemverPattern(line) ELSE LineStartPattern(line)

\* The version by the three rules; kept is what the short-line rule gives.
RuleVersion(line, kept) ==
    IF ~PatternVersion(line).nil THEN PatternVersion(line).val
    ELSE IF line # <<>> /\ Len(line) < MaxVersionLine THEN kept
    ELSE <<>>

\* Every output with the same first line has the same version.
LaterLinesIgnored ==
    ~fnRes.nil =>
        \A other \in VersionOutputs :
            LeadingLine(other) = LeadingLine(fnArg) => extractVersion(other) = fnRes.val

\* C14 as stated: the version is the capture of the first matching pattern
\* on the first line of the trimmed output, else that line verbatim when it
\* is non-empty and shorter than 50 characters, else empty; later lines
\* have no influence.
ExtractVersionVerbatim ==
    /\ ~fnRes.nil => fnRes.val = RuleVersion(LeadingLine(fnArg), LeadingLine(fnArg))
    /\ LaterLinesIgnored

\* C14, amended: as above, but the short-line rule returns the first line
\* with the white space around it trimmed.
ExtractVersionByFirstLine ==
    /\ ~fnRes.nil
         => fnRes.val = RuleVersion(LeadingLine(fnArg), TrimSpace(LeadingLine(fnArg)))
    /\ LaterLinesIgnored

ShortLineTrimmedLaterLinesIgnored ==
    /\ ~fnRes.nil
    /\ PatternVersion(LeadingLine(fnArg)).nil
    /\ fnRes.val # <<>>
    /\ fnRes.val # LeadingLine(fnArg)
    /\ Len(TrimSpace(fnArg)) > Len(LeadingLine(fnArg))

\* C15: for an explored command, the fallback "help <command>" is run
\* exactly when "<command> --help" gave no output, whether that process
\* failed or exited successfully, and then the fallback's output is the
\* text parsed; otherwise the first output is.
FallbackWheneverNoOutput ==
    (Returned /\ CallsOf("runSubcommandHelp") # <<>>)
        => IF CallsOf("runSubcommandHelp")[1].output = <<>>
           THEN /\ Len(CallsOf("runSubcommandHelp")) = 2
                /\ CallsOf("runSubcommandHelp")[2].arg = "help <command>"
                /\ prOut.subOutput = CallsOf("runSubcommandHelp")[2].output
           ELSE /\ Len(CallsOf("runSubcommandHelp")) = 1
                /\ prOut.subOutput = CallsOf("runSubcommandHelp")[1].output

\* C16: every probe has a time budget of its own: a fallback probe made
\* after the first probe hung until its deadline is started under a
\* deadline that has not passed yet.
FallbackHasOwnBudget ==
    \A i \in DOMAIN prLog :
        (i > 1 /\ prLog[i].arg \in {"-h", "help <command>"} /\ prLog[i - 1].kind = "hang")
            => prLog[i].live /\ prLog[i].kind # "notStarted"

\* ------------------------------------------------- parseFlagLine: one call
RECURSIVE JoinWith(_, _)
JoinWith(values, sep) ==
    IF values = <<>> THEN <<>>
    ELSE IF Len(values) = 1 THEN values[1]
    ELSE values[1] \o sep \o JoinWith(Tail(values), sep)

\* Long names of the flag lines.
\*   '--format'
\*   '--o'
LongNames ==
    {<<"-", "-", "f", "o", "r", "m", "a", "t">>,
     <<"-", "-", "o">>}

\* Choice lists: json, yaml and a, b, c.
ValueLists ==
    {<<<<"j", "s", "o", "n">>, <<"y", "a", "m", "l">>>>,
     <<<<"a">>, <<"b">>, <<"c">>>>}

\* How a choice list is written after the long name: =v1|v2, <v1|v2>,
\* [v1|v2], (v1|v2), {v1,v2}.
ChoiceForms ==
    {[open |-> <<"=">>, sep |-> <<"|">>, close |-> <<>>],
     [open |-> <<" ", "<">>, sep |-> <<"|">>, close |-> <<">">>],
     [open |-> <<" ", "[">>, sep |-> <<"|">>, close |-> <<"]">>],
     [open |-> <<" ", "(">>, sep |-> <<"|">>, close |-> <<")">>],
     [open |-> <<" ", "{">>, sep |-> <<",">>, close |-> <<"}">>]}

\* How a placeholder is written after the long name: <file>, [file].
PlaceholderForms ==
    {[open |-> <<" ", "<">>, close |-> <<">">>],
     [open |-> <<" ", "[">>, close |-> <<"]">>]}

PlaceholderName == <<"f", "i", "l", "e">>

\* What precedes the flag part.
\*   ''
\*   '  '
FlagIndents ==
    {<<>>,
     <<" ", " ">>}
\* The short name before the long one, if any.
\*   ''
\*   '-f, '
ShortPrefixes ==
    {<<>>,
     <<"-", "f", ",", " ">>}
\* What follows the flag part.
\*   ''
\*   '  Output format'
FlagDescriptions ==
    {<<>>,
     <<" ", " ", "O", "u", "t", "p", "u", "t", " ", "f", "o", "r", "m", "a", "t">>}

ChoiceLine(indent, short, name, form, values, desc) ==
    indent \o short \o name \o form.open \o JoinWith(values, form.sep)
           \o form.close \o desc

PlaceholderLine(indent, short, name, form, desc) ==
    indent \o short \o name \o form.open \o PlaceholderName \o form.close \o desc

\* Short names.
\*   '-v'
\*   '-o'
ShortNames ==
    {<<"-", "v">>,
     <<"-", "o">>}
\* What follows a lone short name.
\*   ''
\*   ' <a|b>'
\*   '  Verbose'
ShortTails ==
    {<<>>,
     <<" ", "<", "a", "|", "b", ">">>,
     <<" ", " ", "V", "e", "r", "b", "o", "s", "e">>}

ShortOnlyLine(indent, short, tail) == indent \o short \o tail

\* Lines without a long and without a short name in the flag part.
\*   '-foo bar'
\*   '- <a|b>'
\*   '-ab  --format'
\*   '{a,b}  --o'
\*   'build  Build it'
\*   ''
NamelessLines ==
    {<<"-", "f", "o", "o", " ", "b", "a", "r">>,
     <<"-", " ", "<", "a", "|", "b", ">">>,
     <<"-", "a", "b", " ", " ", "-", "-", "f", "o", "r", "m", "a", "t">>,
     <<"{", "a", ",", "b", "}", " ", " ", "-", "-", "o">>,
     <<"b", "u", "i", "l", "d", " ", " ", "B", "u", "i", "l", "d", " ", "i", "t">>,
     <<>>}

FlagLines ==
    {ChoiceLine(i, s, n, f, v, d) :
        i \in FlagIndents, s \in ShortPrefixes, n \in LongNames, f \in ChoiceForms,
        v \in ValueLists, d \in FlagDescriptions}
    \cup {PlaceholderLine(i, s, n, f, d) :
            i \in FlagIndents, s \in ShortPrefixes, n \in LongNames,
            f \in PlaceholderForms, d \in FlagDescriptions}
    \cup {ShortOnlyLine(i, s, t) : i \in FlagIndents, s \in ShortNames, t \in ShortTails}
    \cup NamelessLines

FlagLineInit ==
    /\ fnArg \in FlagLines /\ fnRes = Nil
    /\ GenIdle /\ ParseIdle /\ HashIdle /\ ProbeIdle /\ ScanIdle /\ ManIdle /\ RunIdle /\ RcIdle

\* parseFlagLine(line), lines 541-644.
ParseFlagLine ==
    /\ fnRes = Nil
    /\ fnRes' = Some(parseFlagLine(fnArg))
    /\ UNCHANGED fnArg
    /\ UNCHANGED nonFnVars

FlagLineSpec == FlagLineInit /\ [][ParseFlagLine]_vars

\* ------------------------------------------------- parseFlagLine: properties
\* The call returned a Flag with this name, placeholder and choice list.
ReturnsFlag(name, arg, values) ==
    /\ ~fnRes.val.nil
    /\ fnRes.val.val.Name = name
    /\ fnRes.val.val.Arg = arg
    /\ fnRes.val.val.ArgumentValues = values

ChoiceListsKept ==
    \A i \in FlagIndents, s \in ShortPrefixes, n \in LongNames, f \in ChoiceForms,
       v \in ValueLists, d \in FlagDescriptions :
        fnArg = ChoiceLine(i, s, n, f, v, d) => ReturnsFlag(n, ValueArg, v)

PlaceholdersKept ==
    \A i \in FlagIndents, s \in ShortPrefixes, n \in LongNames,
       f \in PlaceholderForms, d \in FlagDescriptions :
        fnArg = PlaceholderLine(i, s, n, f, d) => ReturnsFlag(n, PlaceholderName, <<>>)

ShortNamePromoted ==
    \A i \in FlagIndents, s \in ShortNames, t \in ShortTails :
        fnArg = ShortOnlyLine(i, s, t)
            => /\ ~fnRes.val.nil
               /\ fnRes.val.val.Name = s
               /\ fnRes.val.val.Short = <<>>

\* C17: a choice list written as --name=v1|..|vn, <v1|..|vn>, [v1|..|vn],
\* (v1|..|vn) or {v1,..,vn} gives Name --name, Arg "value" and the values
\* in the listed order; a placeholder without separator gives its text as
\* Arg and no values; a line without long and short name gives no Flag; a
\* lone short name becomes the Name and Short stays empty.
FlagLineChoicesFaithful ==
    ~fnRes.nil
        => /\ ChoiceListsKept
           /\ PlaceholdersKept
           /\ ShortNamePromoted
           /\ fnArg \in NamelessLines => fnRes.val.nil

BraceListParsed ==
    /\ ~fnRes.nil
    /\ \E i \in FlagIndents, s \in ShortPrefixes, d \in FlagDescriptions :
          fnArg = i \o s \o <<"-", "-", "f", "o", "r", "m", "a", "t", " ", "{", "a", ",", "b", ",", "c", "}">> \o d
    /\ ReturnsFlag(<<"-", "-", "f", "o", "r", "m", "a", "t">>, ValueArg, <<<<"a">>, <<"b">>, <<"c">>>>)

\* ------------------------------------------------- parseCommandLine: one call
\* Names of 1 to 30 letters, digits, hyphens and underscores.
\*   'b'
\*   'rm'
\*   'ls'
\*   'add'
\*   'build-all_2'
ValidCommandNames ==
    {<<"b">>,
     <<"r", "m">>,
     <<"l", "s">>,
     <<"a", "d", "d">>,
     <<"b", "u", "i", "l", "d", "-", "a", "l", "l", "_", "2">>}

\* Names that are empty, hold another character, or have 31 characters.
InvalidCommandNames ==
    {<<>>, <<"x", "!">>, [i \in 1..31 |-> "n"]}

\* How the names of a group are separated.
\*   ','
\*   ', '
NameSeparators ==
    {<<",">>,
     <<",", " ">>}
\* What follows the name part.
\*   ''
\*   '  Build it'
CommandDescriptions ==
    {<<>>,
     <<" ", " ", "B", "u", "i", "l", "d", " ", "i", "t">>}

MaxGroup == 3

\* A comma group of 2 to MaxGroup names, its separator and description.
CommandGroups ==
    {[names |-> ns, sep |-> s, desc |-> d] :
        ns \in UNION {[1..k -> ValidCommandNames \cup InvalidCommandNames] : k \in 2..MaxGroup},
        s \in NameSeparators, d \in CommandDescriptions}

\* The help line that lists the group.
GroupLine(group) == <<" ", " ">> \o JoinWith(group.names, group.sep) \o group.desc

CommandLineInit ==
    /\ fnArg \in CommandGroups /\ fnRes = Nil
    /\ GenIdle /\ ParseIdle /\ HashIdle /\ ProbeIdle /\ ScanIdle /\ ManIdle /\ RunIdle /\ RcIdle

\* parseCommandLine(line), lines 472-538, on the line of a group.
ParseCommandLine ==
    /\ fnRes = Nil
    /\ fnRes' = Some(parseCommandLine(GroupLine(fnArg)))
    /\ UNCHANGED fnArg
    /\ UNCHANGED nonFnVars

CommandLineSpec == CommandLineInit /\ [][ParseCommandLine]_vars

\* ------------------------------------------------- parseCommandLine: properties
\* The names of the group that pass validation, in the listed order.
ValidOfGroup == SelectSeq(fnArg.names, LAMBDA n : n \in ValidCommandNames)

CountIn(names, n) == Cardinality({i \in DOMAIN names : names[i] = n})

\* k is the first position of a name of maximal length.
FirstLongest(names, k) ==
    /\ \A j \in DOMAIN names : Len(names[j]) <= Len(names[k])
    /\ \A j \in 1..(k - 1) : Len(names[j]) < Len(names[k])

\* The entries of names other than the one at position k.
Others(names, k) == SubSeq(names, 1, k - 1) \o SubSeq(names, k + 1, Len(names))

\* C18: of a comma group, the Command's Name is the first-listed of the
\* longest valid names, its Aliases hold every other valid entry of the
\* group exactly once and nothing else, invalid names are dropped, and no
\* Command is returned when no name is valid.
LongestNameIsPrimary ==
    ~fnRes.nil
        => IF ValidOfGroup = <<>> THEN fnRes.val.nil
           ELSE /\ ~fnRes.val.nil
                /\ \E k \in DOMAIN ValidOfGroup :
                     /\ FirstLongest(ValidOfGroup, k)
                     /\ fnRes.val.val.Name = ValidOfGroup[k]
                     /\ Len(fnRes.val.val.Aliases) = Len(ValidOfGroup) - 1
                     /\ \A n \in ValidCommandNames \cup InvalidCommandNames :
                          CountIn(fnRes.val.val.Aliases, n)
                              = CountIn(Others(ValidOfGroup, k), n)

TieKeepsFirstListed ==
    /\ ~fnRes.nil /\ ~fnRes.val.nil
    /\ fnArg.names = <<<<"r", "m">>, <<"x", "!">>, <<"l", "s">>>>
    /\ fnRes.val.val.Name = <<"r", "m">>
    /\ fnRes.val.val.Aliases = <<<<"l", "s">>>>

\* ------------------------------------------------- two scans of one text
MaxScanLines == 4

\* Lines of a help text: headers, entries and a blank line.
\*   'Commands:'
\*   'COMMANDS'
\*   'Options:'
\*   'Global Options:'
\*   '  build  Build it'
\*   '  -o, --output <file>  Output'
\*   '--force'
\*   ''
ScanLines ==
    {<<"C", "o", "m", "m", "a", "n", "d", "s", ":">>,
     <<"C", "O", "M", "M", "A", "N", "D", "S">>,
     <<"O", "p", "t", "i", "o", "n", "s", ":">>,
     <<"G", "l", "o", "b", "a", "l", " ", "O", "p", "t", "i", "o", "n", "s", ":">>,
     <<" ", " ", "b", "u", "i", "l", "d", " ", " ", "B", "u", "i", "l", "d", " ", "i", "t">>,
     <<" ", " ", "-", "o", ",", " ", "-", "-", "o", "u", "t", "p", "u", "t", " ", "<", "f", "i", "l", "e", ">", " ", " ", "O", "u", "t", "p", "u", "t">>,
     <<"-", "-", "f", "o", "r", "c", "e">>,
     <<>>}

\* parseHelpOutput on an empty Tool and parseSubcommandOutput on an empty
\* Command, before the first line of the same text.
ScanInit ==
    /\ scLeft = MaxScanLines /\ scLine = <<>>
    /\ scHelp = Scan(FALSE, FALSE, <<>>, <<>>, {}, {}, 0, {})
    /\ scSub = Scan(FALSE, FALSE, <<>>, <<>>, {}, {}, 0, {})
    /\ GenIdle /\ ParseIdle /\ HashIdle /\ ProbeIdle /\ FnIdle /\ ManIdle /\ RunIdle /\ RcIdle

\* The loop bodies of parseHelpOutput (lines 370-429) and of
\* parseSubcommandOutput (lines 279-323) for the next line of the text.
ScanLine ==
    /\ scLeft > 0
    /\ \E line \in ScanLines :
        /\ scLine' = line
        /\ scHelp' = HelpLineStep(scHelp, line)
        /\ scSub' = SubLineStep(scSub, line)
    /\ scLeft' = scLeft - 1
    /\ UNCHANGED nonScanVars

ScanSpec == ScanInit /\ [][ScanLine]_vars

\* ------------------------------------------------- two scans: properties
Mode(st) == <<st.inCommands, st.inOptions>>
LowerTrimmed(line) == ToLower(TrimSpace(line))

\* The step of one loop from st to next over line keeps to the mode rules.
ModeStep(st, next, isCommandsHeader, isOptionsHeader) ==
    /\ isCommandsHeader => Mode(next) = <<TRUE, FALSE>>
    /\ isOptionsHeader => Mode(next) = <<FALSE, TRUE>>
    /\ Mode(next) # Mode(st) => isCommandsHeader \/ isOptionsHeader

\* C19: inCommands and inOptions are never both set; a commands header
\* sets inCommands and clears inOptions, an options header does the
\* opposite, and no other line, blank or not, changes the mode.
SectionModeExclusive ==
    /\ [](~(scHelp.inCommands /\ scHelp.inOptions))
    /\ [](~(scSub.inCommands /\ scSub.inOptions))
    /\ [][/\ ModeStep(scHelp, scHelp', IsHelpCommandsHeader(LowerTrimmed(scLine')),
                      IsHelpOptionsHeader(LowerTrimmed(scLine')))
          /\ ModeStep(scSub, scSub', IsSubCommandsHeader(LowerTrimmed(scLine')),
                      IsSubOptionsHeader(LowerTrimmed(scLine')))]_vars

\* The mode set by a header has outlived a blank line and an entry.
ModeKeptAcrossLines ==
    /\ scLeft = 0
    /\ scLine = <<>>
    /\ Mode(scHelp) = <<FALSE, TRUE>>
    /\ Mode(scSub) = <<FALSE, TRUE>>
    /\ Len(scHelp.cmds) = 1

\* C20: on the same text parseSubcommandOutput leaves the Flags and
\* Subcommands that parseHelpOutput leaves as GlobalFlags and Subcommands.
SubScanMatchesHelpScan ==
    /\ scSub.flags = scHelp.flags
    /\ scSub.cmds = scHelp.cmds

\* ------------------------------------------------- size guard: truncateTool
MaxSubcommands == 500
MaxFlags == 200
MaxTotalItems == 2000

\* The decimal numeral of a natural number.
RECURSIVE Numeral(_)
Numeral(n) ==
    IF n < 10 THEN <<(<<"0", "1", "2", "3", "4", "5", "6", "7", "8", "9">>)[n + 1]>>
    ELSE Numeral(n \div 10) \o Numeral(n % 10)

\* count flags named --f1 .. --f<count>.
FlagList(count) ==
    [i \in 1..count |-> Flag(<<"-", "-", "f">> \o Numeral(i), <<>>, <<>>, <<>>, <<>>, FALSE)]

\* The sum of f[lo] .. f[hi], by halves.
RECURSIVE SumOver(_, _, _)
SumOver(f, lo, hi) ==
    IF lo > hi THEN 0
    ELSE IF lo = hi THEN f[lo]
    ELSE SumOver(f, lo, (lo + hi) \div 2) + SumOver(f, (lo + hi) \div 2 + 1, hi)

SumTo(f, n) == SumOver(f, 1, n)

\* countCommandItems, lines 42-50: <<subcommands, flags>> below and in cmd.
RECURSIVE countCommandItems(_)
countCommandItems(cmd) ==
    <<SumTo([i \in DOMAIN cmd.Subcommands |-> 1 + countCommandItems(cmd.Subcommands[i])[1]],
            Len(cmd.Subcommands)),
      Len(cmd.Flags)
        + SumTo([i \in DOMAIN cmd.Subcommands |-> countCommandItems(cmd.Subcommands[i])[2]],
                Len(cmd.Subcommands))>>

\* countItems, lines 31-39.
countItems(tool) ==
    <<SumTo([i \in DOMAIN tool.Subcommands |-> 1 + countCommandItems(tool.Subcommands[i])[1]],
            Len(tool.Subcommands)),
      Len(tool.GlobalFlags)
        + SumTo([i \in DOMAIN tool.Subcommands |-> countCommandItems(tool.Subcommands[i])[2]],
                Len(tool.Subcommands))>>

\* A warning: the list cut, the command it belongs to, the two counts.
Warning(what, name, from, to) == [what |-> what, name |-> name, from |-> from, to |-> to]

\* s[:n] of a slice longer than n.
Prefix(s, n) == SubSeq(s, 1, n)

\* truncateSubcommandFlags, lines 112-127: the commands.
RECURSIVE TruncatedCommands(_)
TruncatedCommands(cmds) ==
    [i \in DOMAIN cmds |->
        [cmds[i] EXCEPT
            !.Flags = IF Len(@) > MaxFlags THEN Prefix(@, MaxFlags) ELSE @,
            !.Subcommands = IF Len(@) > 0 THEN TruncatedCommands(@) ELSE @]]

\* truncateSubcommandFlags, lines 112-127: the warnings for the commands
\* cmds[lo] .. cmds[hi], in the order of the walk (a command before the
\* commands below it).
RECURSIVE WarningsOver(_, _, _)
WarningsOver(cmds, lo, hi) ==
    IF lo > hi THEN <<>>
    ELSE IF lo = hi
    THEN (IF Len(cmds[lo].Flags) > MaxFlags
          THEN <<Warning("flags for", cmds[lo].Name, Len(cmds[lo].Flags), MaxFlags)>>
          ELSE <<>>)
         \o WarningsOver(cmds[lo].Subcommands, 1, Len(cmds[lo].Subcommands))
    ELSE WarningsOver(cmds, lo, (lo + hi) \div 2)
         \o WarningsOver(cmds, (lo + hi) \div 2 + 1, hi)

CommandWarnings(cmds) == WarningsOver(cmds, 1, Len(cmds))

\* truncateTool, line 62: the test on the counts.
NeedsTruncation(tool, counts) ==
    \/ counts[1] > MaxSubcommands
    \/ Len(tool.GlobalFlags) > MaxFlags
    \/ counts[1] + counts[2] > MaxTotalItems

\* truncateTool, lines 82-95: the two top-level lists cut.
TopTruncated(tool) ==
    [tool EXCEPT
        !.GlobalFlags = IF Len(@) > MaxFlags THEN Prefix(@, MaxFlags) ELSE @,
        !.Subcommands = IF Len(@) > MaxSubcommands THEN Prefix(@, MaxSubcommands) ELSE @]

TopWarnings(tool) ==
    (IF Len(tool.GlobalFlags) > MaxFlags
     THEN <<Warning("global flags", <<>>, Len(tool.GlobalFlags), MaxFlags)>> ELSE <<>>)
    \o (IF Len(tool.Subcommands) > MaxSubcommands
        THEN <<Warning("subcommands", <<>>, Len(tool.Subcommands), MaxSubcommands)>>
        ELSE <<>>)

\* truncateTool, lines 100-106: the final count.
FinalWarnings(truncated, counts) ==
    IF counts[1] + counts[2] > MaxTotalItems
    THEN <<Warning("still", <<>>, counts[1] + counts[2], MaxTotalItems)>> ELSE <<>>

\* truncateTool, lines 70-108, once truncation is needed.
TruncatedResult(tool, top) ==
    [tool |-> [top EXCEPT !.Subcommands = TruncatedCommands(@)],
     warnings |->
        TopWarnings(tool) \o CommandWarnings(top.Subcommands)
        \o FinalWarnings([top EXCEPT !.Subcommands = TruncatedCommands(@)],
                         countItems([top EXCEPT !.Subcommands = TruncatedCommands(@)]))]

\* truncateTool (limits.go:54-109)
truncateTool(tool) ==
    IF ~NeedsTruncation(tool, countItems(tool))
    THEN [tool |-> tool, warnings |-> <<>>]
    ELSE TruncatedResult(tool, TopTruncated(tool))

\* The shapes of the tools given to the guard: the number of global flags,
\* of top-level commands, of flags of the first command, of flags of the
\* one command below it, and of flags of each other top-level command.
ToolShapes ==
    {[g |-> g, n |-> n, f |-> f, d |-> d, r |-> r] :
        g \in {0, MaxFlags, MaxFlags + 1},
        n \in {1, 11, MaxSubcommands, MaxSubcommands + 1},
        f \in {0, MaxFlags, MaxFlags + 1},
        d \in {0, MaxFlags + 1},
        r \in {0, MaxFlags}}

ShapedCommand(shape, i) ==
    Command(<<"c">> \o Numeral(i), <<>>, <<>>,
            IF i = 1
            THEN <<Command(<<"n", "e", "s", "t", "e", "d">>, <<>>, <<>>, <<>>,
                           FlagList(shape.d))>>
            ELSE <<>>,
            FlagList(IF i = 1 THEN shape.f ELSE shape.r))

ShapedTool(shape) ==
    Tool("tool", <<>>, "1.0", 0, "help",
         [i \in 1..shape.n |-> ShapedCommand(shape, i)], FlagList(shape.g))

\* Flags on all other commands only for the tools of 11 commands.
LimitTools == {ShapedTool(s) : s \in {t \in ToolShapes : t.r = 0 \/ t.n = 11}}

TruncateInit ==
    /\ fnArg \in LimitTools /\ fnRes = Nil
    /\ GenIdle /\ ParseIdle /\ HashIdle /\ ProbeIdle /\ ScanIdle /\ ManIdle /\ RunIdle /\ RcIdle

\* truncateTool(tool), lines 54-109.
TruncateTool ==
    /\ fnRes = Nil
    /\ fnRes' = Some(truncateTool(fnArg))
    /\ UNCHANGED fnArg
    /\ UNCHANGED nonFnVars

TruncateSpec == TruncateInit /\ [][TruncateTool]_vars

\* ------------------------------------------------- size guard: properties
WithinCap(list) == Len(list) <= MaxFlags

\* Every Flags list of the commands, at any depth, is within the cap.
RECURSIVE AllCommandFlags(_)
AllCommandFlags(cmds) ==
    \A i \in DOMAIN cmds :
        /\ WithinCap(cmds[i].Flags)
        /\ AllCommandFlags(cmds[i].Subcommands)

\* got is orig, or its first cap entries with one warning of the counts.
CutOrSame(orig, got, cap, what, name, warnings) ==
    IF Len(orig) > cap
    THEN /\ got = Prefix(orig, cap)
         /\ Cardinality({i \in DOMAIN warnings :
                            warnings[i] = Warning(what, name, Len(orig), cap)}) = 1
    ELSE got = orig

\* Some list of the tool is over its cap.
OverSomeCap(tool) ==
    \/ Len(tool.Subcommands) > MaxSubcommands
    \/ Len(tool.GlobalFlags) > MaxFlags
    \/ ~AllCommandFlags(tool.Subcommands)

\* C21: after truncateTool the top-level Subcommands have at most 500
\* entries and every Flags list at most 200; a list that was cut is the
\* first cap-many entries of the original, with one warning of the counts;
\* with no limit exceeded the same Tool comes back without warnings.
ListsWithinCaps ==
    ~fnRes.nil
        => /\ Len(fnRes.val.tool.Subcommands) <= MaxSubcommands
           /\ WithinCap(fnRes.val.tool.GlobalFlags)
           /\ AllCommandFlags(fnRes.val.tool.Subcommands)
           /\ CutOrSame(fnArg.GlobalFlags, fnRes.val.tool.GlobalFlags, MaxFlags,
                        "global flags", <<>>, fnRes.val.warnings)
           /\ CutOrSame(fnArg.Subcommands,
                        [i \in DOMAIN fnRes.val.tool.Subcommands |->
                            fnArg.Subcommands[i]],
                        MaxSubcommands, "subcommands", <<>>, fnRes.val.warnings)
           /\ ~OverSomeCap(fnArg) => fnRes.val = [tool |-> fnArg, warnings |-> <<>>]

\* A tool with one command of 201 flags comes back as it was given.
OverCapListReturned ==
    /\ ~fnRes.nil
    /\ Len(fnArg.Subcommands) = 1
    /\ Len(fnArg.Subcommands[1].Flags) = MaxFlags + 1
    /\ fnRes.val = [tool |-> fnArg, warnings |-> <<>>]

\* ---------------------------------------------- size guard: checkOutputSize
MaxOutputSize == 1048576

\* A script is kept as runs of one repeated byte: [c |-> byte, n |-> times].
Run(c, n) == [c |-> c, n |-> n]

\* The runs of a text given byte by byte.
RunsOf(text) == [i \in DOMAIN text |-> Run(text[i], 1)]

\* len(script)
RECURSIVE RunLen(_)
RunLen(script) == IF script = <<>> THEN 0 ELSE Head(script).n + RunLen(Tail(script))

\* script[:k]
RECURSIVE Take(_, _)
Take(script, k) ==
    IF k = 0 \/ script = <<>> THEN <<>>
    ELSE IF Head(script).n <= k
    THEN <<Head(script)>> \o Take(Tail(script), k - Head(script).n)
    ELSE <<Run(Head(script).c, k)>>

\* lastNewline, lines 151-158: the index of the last newline, or -1.
RECURSIVE lastNewline(_)
lastNewline(s) ==
    IF s = <<>> THEN -1
    ELSE IF s[Len(s)].c = "\n" THEN RunLen(s) - 1
    ELSE lastNewline(SubSeq(s, 1, Len(s) - 1))

\* The text appended to a truncated script, line 143.
TruncationMarker ==
    RunsOf(<<"\n",
      "#", " ", "W", "A", "R", "N", "I", "N", "G", ":", " ", "S", "c",
      "r", "i", "p", "t", " ", "t", "r", "u", "n", "c", "a", "t", "e",
      "d", " ", "d", "u", "e", " ", "t", "o", " ", "s", "i", "z", "e",
      " ", "l", "i", "m", "i", "t", "s",
      "\n">>)

\* checkOutputSize, lines 138-142: where the script is cut.
CutAt(truncated, lastNL) ==
    IF lastNL > MaxOutputSize \div 2 THEN lastNL + 1 ELSE RunLen(truncated)

\* checkOutputSize (limits.go:130-148)
checkOutputSize(script, toolName) ==
    IF RunLen(script) > MaxOutputSize
    THEN [script |->
            Take(Take(script, MaxOutputSize),
                 CutAt(Take(script, MaxOutputSize),
                       lastNewline(Take(script, MaxOutputSize))))
            \o TruncationMarker,
          warnings |-> <<Warning("exceeds", toolName, RunLen(script), MaxOutputSize)>>]
    ELSE [script |-> script, warnings |-> <<>>]

\* The scripts given to the guard: a run of x, newlines, a run of x, with
\* the newlines before, at and after the halfway point and the end at,
\* just over and far over the cap.
HeadLengths ==
    {0, MaxOutputSize \div 2 - 1, MaxOutputSize \div 2, MaxOutputSize \div 2 + 1,
     MaxOutputSize - 1, MaxOutputSize}
TailLengths == {0, 1, 47, 48, 49, 1000, MaxOutputSize \div 2}

ScriptOf(a, b, c) ==
    SelectSeq(<<Run("x", a), Run("\n", b), Run("x", c)>>, LAMBDA r : r.n > 0)

Scripts == {ScriptOf(a, b, c) : a \in HeadLengths, b \in {0, 1, 2}, c \in TailLengths}

OutputSizeInit ==
    /\ fnArg \in Scripts /\ fnRes = Nil
    /\ GenIdle /\ ParseIdle /\ HashIdle /\ ProbeIdle /\ ScanIdle /\ ManIdle /\ RunIdle /\ RcIdle

\* checkOutputSize(script, toolName), lines 130-148.
CheckOutputSize ==
    /\ fnRes = Nil
    /\ fnRes' = Some(checkOutputSize(fnArg, "tool"))
    /\ UNCHANGED fnArg
    /\ UNCHANGED nonFnVars

OutputSizeSpec == OutputSizeInit /\ [][CheckOutputSize]_vars

\* ------------------------------------------ size guard: script properties
\* The number of bytes kept of the input in a truncated result.
KeptLen(result) == RunLen(result.script) - Len(TruncationMarker)

\* C22: a script over the byte cap comes back as a prefix that ends with a
\* newline at or after the halfway point of the cap, followed by the
\* truncation marker, with one warning; a script within the cap comes back
\* unchanged without a warning.
CutAtLineBoundary ==
    ~fnRes.nil
        => IF RunLen(fnArg) > MaxOutputSize
           THEN /\ KeptLen(fnRes.val) >= MaxOutputSize \div 2
                /\ KeptLen(fnRes.val) <= RunLen(fnArg)
                /\ fnRes.val.script = Take(fnArg, KeptLen(fnRes.val)) \o TruncationMarker
                /\ lastNewline(Take(fnArg, KeptLen(fnRes.val))) = KeptLen(fnRes.val) - 1
                /\ Len(fnRes.val.warnings) = 1
           ELSE fnRes.val = [script |-> fnArg, warnings |-> <<>>]

\* A script over the cap with no newline past the halfway point is cut at
\* the cap, inside a line.
CutInsideLine ==
    /\ ~fnRes.nil
    /\ RunLen(fnArg) > MaxOutputSize
    /\ KeptLen(fnRes.val) = MaxOutputSize
    /\ lastNewline(Take(fnArg, MaxOutputSize)) < MaxOutputSize - 1

\* C23: for a script over the byte cap the returned script, marker
\* included, is strictly shorter than the script given.
TruncatedIsShorter ==
    ~fnRes.nil /\ RunLen(fnArg) > MaxOutputSize
        => RunLen(fnRes.val.script) < RunLen(fnArg)

\* A script one byte over the cap comes back longer than it was.
TruncatedIsLonger ==
    /\ ~fnRes.nil
    /\ RunLen(fnArg) = MaxOutputSize + 1
    /\ RunLen(fnRes.val.script) > RunLen(fnArg)

\* ------------------------------------------------------ man page scan
MaxManLines == 5

\* Lines of a man page.
\*   'OPTIONS'
\*   'EXAMPLES'
\*   'COPYRIGHT'
\*   '       -v'
\*   '       --output  Man text'
\*   '           Be verbose'
\*   ''
ManPageLines ==
    {<<"O", "P", "T", "I", "O", "N", "S">>,
     <<"E", "X", "A", "M", "P", "L", "E", "S">>,
     <<"C", "O", "P", "Y", "R", "I", "G", "H", "T">>,
     <<" ", " ", " ", " ", " ", " ", " ", "-", "v">>,
     <<" ", " ", " ", " ", " ", " ", " ", "-", "-", "o", "u", "t", "p", "u", "t", " ", " ", "M", "a", "n", " ", "t", "e", "x", "t">>,
     <<" ", " ", " ", " ", " ", " ", " ", " ", " ", " ", " ", "B", "e", " ", "v", "e", "r", "b", "o", "s", "e">>,
     <<>>}

\* parseManPage on an empty Tool, before the first line.
ManPageInit ==
    /\ mnLeft = MaxManLines /\ mnLine = <<>>
    /\ mnScan = Scan(FALSE, FALSE, <<>>, <<>>, {}, {}, 0, {})
    /\ mnSection = "none" /\ mnLast = Nil
    /\ GenIdle /\ ParseIdle /\ HashIdle /\ ProbeIdle /\ FnIdle /\ ScanIdle /\ RunIdle /\ RcIdle

\* The line is an OPTIONS heading.
OptionsHeading(line) == HasPrefix(TrimSpace(line), <<"O", "P", "T", "I", "O", "N", "S">>)

\* The line is an unindented heading of one of the man page sections.
SectionHeading(line) ==
    /\ Len(line) > 0 /\ line[1] \notin {" ", "\t"}
    /\ \E h \in ManSectionHeaders :
          TrimSpace(line) = h \/ HasPrefix(TrimSpace(line), h \o <<" ">>)

\* The section of the text after the line: OPTIONS is open from an OPTIONS
\* heading to the next section heading.
SectionAfter(section, line) ==
    IF OptionsHeading(line) THEN "options"
    ELSE IF section = "options" /\ SectionHeading(line) THEN "closed"
    ELSE section

\* The line is a flag line of the OPTIONS section naming a flag.
DefinesFlag(section, line) ==
    /\ section = "options" /\ ~OptionsHeading(line) /\ ~SectionHeading(line)
    /\ HasPrefix(TrimSpace(line), <<"-">>)
    /\ ~parseFlagLine(line).nil

\* The loop body of parseManPage (lines 656-691) for the next line.
ManPageLine ==
    /\ mnLeft > 0
    /\ \E line \in ManPageLines :
        /\ mnLine' = line
        /\ mnScan' = ManLineStep(mnScan, line)
        /\ mnSection' = SectionAfter(mnSection, line)
        /\ mnLast' = IF DefinesFlag(mnSection, line)
                      THEN Some(parseFlagLine(line).val.Name) ELSE mnLast
    /\ mnLeft' = mnLeft - 1
    /\ UNCHANGED nonManVars

ManPageSpec == ManPageInit /\ [][ManPageLine]_vars

\* ------------------------------------------- man page scan: properties
FlagNames(flags) == {flags[i].Name : i \in DOMAIN flags}

ContinuationGoesToLastFlagLine ==
    [][\A i \in DOMAIN mnScan.flags :
          mnScan'.flags[i].Description # mnScan.flags[i].Description
              => ~mnLast.nil /\ mnLast.val = mnScan.flags[i].Name]_vars

\* After a discarded duplicate of another flag, the text line has set the
\* description of the flag added before it.
ContinuationAfterDuplicateMisplaced ==
    /\ ~mnLast.nil
    /\ \E i \in DOMAIN mnScan.flags :
          /\ mnScan.flags[i].Description = TrimSpace(mnLine)
          /\ mnLine # <<>>
          /\ ~HasPrefix(TrimSpace(mnLine), <<"-">>)
          /\ mnScan.flags[i].Name # mnLast.val

\* ------------------------------------------------- command sequences
MaxCommands == 3

\* One command of the history: Generate or Scan, the force option, the
\* status reported for the tool, whether a file of the tool was written,
\* whether the catalog was saved, and the tool's entry after the command.
Ran(op, f, status, wrote, saved, entry) ==
    [op |-> op, force |-> f, status |-> status, wrote |-> wrote,
     saved |-> saved, entry |-> entry]

\* The catalog holds the tool as Scan found it; Parse will yield the same
\* Tool on every run.
RunInit ==
    /\ rnTool \in {o.tool : o \in {x \in ParseOutcomes("tool", PathOf("tool")) : ~x.err}}
    /\ rnEntry = CatalogEntry(PathOf("tool"), "", "", NoHash, FALSE)
    /\ rnLog = <<>>
    /\ rnLeft = MaxCommands
    /\ GenIdle /\ ParseIdle /\ HashIdle /\ ProbeIdle /\ FnIdle /\ ScanIdle /\ ManIdle /\ RcIdle

\* The status processTools reports for the tool (part_001:182-253).
ReportedStatus(f, entry, tool, failAt) ==
    IF IsUnparseable(tool) THEN "none"
    ELSE IF Classify(f, entry, tool.Version, ContentHash(tool)) = "skipped" THEN "skipped"
    ELSE IF failAt # "" THEN "failed"
    ELSE Classify(f, entry, tool.Version, ContentHash(tool))

\* Generate for the one tool: processTools (part_001:182-253), the
\* collecting loop and the catalog save (lines 113-160).
GenerateRun ==
    /\ rnLeft > 0
    /\ \E f \in BOOLEAN, failAt \in {"", "save", "bash", "zsh"}, saveFails \in BOOLEAN :
         /\ failAt = "" \/ ReportedStatus(f, rnEntry, rnTool, failAt) = "failed"
         /\ rnEntry' =
              IF IsRegenerated(ReportedStatus(f, rnEntry, rnTool, failAt)) /\ ~saveFails
              THEN UpdatedEntry(rnEntry,
                       SaveAll(ToolResult("tool", "", "", "", NoHash, "", ""),
                               rnTool, ContentHash(rnTool), ""))
              ELSE rnEntry
         /\ rnLog' = Append(rnLog,
              Ran("generate", f, ReportedStatus(f, rnEntry, rnTool, failAt),
                  \/ IsRegenerated(ReportedStatus(f, rnEntry, rnTool, failAt))
                  \/ failAt \in {"bash", "zsh"},
                  ~saveFails, rnEntry'))
    /\ rnLeft' = rnLeft - 1
    /\ UNCHANGED rnTool
    /\ UNCHANGED nonRunVars

\* Scan (src/cmd/scan.go:21-46), lines 36-41: what is kept of the entry.
Preserved(found, existing) == [found EXCEPT !.Generated = existing.Generated]

\* Scan with the tool still on PATH and in the history: the scanner's
\* fresh entry (part_003:117-122) with the old generated status.
ScanRun ==
    /\ rnLeft > 0
    /\ rnEntry' = Preserved(CatalogEntry(PathOf("tool"), "", "", NoHash, FALSE), rnEntry)
    /\ rnLog' = Append(rnLog, Ran("scan", FALSE, "", FALSE, TRUE, rnEntry'))
    /\ rnLeft' = rnLeft - 1
    /\ UNCHANGED rnTool
    /\ UNCHANGED nonRunVars

RunNext == GenerateRun \/ ScanRun

RunSpec == RunInit /\ [][RunNext]_vars

\* ------------------------------------------ command sequences: properties
\* A Generate that generated the tool and saved the catalog.
Generated(r) == r.op = "generate" /\ IsRegenerated(r.status) /\ r.saved

\* A Generate without force.
Unforced(r) == r.op = "generate" /\ ~r.force

\* C25: a Generate without force that directly follows a Generate which
\* generated the tool and saved the catalog, with the same probe outputs,
\* reports the tool as skipped and writes none of its files, whatever the
\* detected version string.
RegenerationIdempotent ==
    \A i \in 1..(Len(rnLog) - 1) :
        Generated(rnLog[i]) /\ Unforced(rnLog[i + 1])
            => rnLog[i + 1].status = "skipped" /\ ~rnLog[i + 1].wrote

\* A tool without a version string was generated twice in a row.
UnversionedRegenerated ==
    /\ Len(rnLog) >= 2
    /\ rnTool.Version = ""
    /\ Generated(rnLog[1]) /\ Unforced(rnLog[2])
    /\ rnLog[2].status = "success" /\ rnLog[2].wrote

\* C26: for Generate, Scan, Generate without force, Scan carries over the
\* generated flag with the generated-version and the fingerprint, and the
\* second Generate reports the tool as skipped.
RescanKeepsCache ==
    \A i \in 1..(Len(rnLog) - 1) :
        Generated(rnLog[i]) /\ rnLog[i + 1].op = "scan"
            => /\ rnLog[i + 1].entry.Generated = rnLog[i].entry.Generated
               /\ rnLog[i + 1].entry.GeneratedVersion = rnLog[i].entry.GeneratedVersion
               /\ rnLog[i + 1].entry.ContentHash = rnLog[i].entry.ContentHash
               /\ (i + 2 <= Len(rnLog) /\ Unforced(rnLog[i + 2]))
                    => rnLog[i + 2].status = "skipped"

\* After Generate and Scan the entry has lost its generated-version and
\* fingerprint, and the next Generate has generated the tool again.
RescanDroppedCache ==
    /\ Len(rnLog) = 3
    /\ rnTool.Version # ""
    /\ Generated(rnLog[1]) /\ rnLog[2].op = "scan" /\ Unforced(rnLog[3])
    /\ rnLog[2].entry.Generated
    /\ rnLog[2].entry.GeneratedVersion = "" /\ rnLog[2].entry.ContentHash = NoHash
    /\ rnLog[3].status = "success"

\* ------------------------------------------------- probes: the source tag
\* C27: a Tool returned by Parse with neither help nor man output has the
\* source none, whatever made the man probe fail; otherwise the source is
\* help, man or both according to which of the two outputs are non-empty.
SourceTagFollowsOutputs ==
    ReturnedTool
        => prOut.source =
             (IF prOut.helpOutput # <<>> /\ prOut.manOutput # <<>> THEN "both"
              ELSE IF prOut.helpOutput # <<>> THEN "help"
              ELSE IF prOut.manOutput # <<>> THEN "man"
              ELSE "none")

\* Parse returned a Tool without any text and with a source other than
\* none: the man probe was denied.
NoTextButNotNone ==
    /\ ReturnedTool
    /\ prOut.helpOutput = <<>> /\ prOut.manOutput = <<>>
    /\ isPermissionError(prOut.manErr)
    /\ prOut.source = "help-only"
    /\ ~IsUnparseable([Source |-> prOut.source])

\* ------------------------------------------------------------ scanner
\* The file names of the scanner model: a tool, a hidden file, and a tool
\* that an exclusion pattern can match.
ToolFile == <<"t", "o", "o", "l">>
HiddenFile == <<".", "r", "c">>
OldFile == <<"o", "l", "d">>

\* A directory entry: its name and what it is ("exec": regular file with an
\* execute bit, "plain": regular file without one, "dir": a directory).
DirEntry(name, kind) == [name |-> name, kind |-> kind]

\* The listings os.ReadDir can give for one directory, sorted by name.
Listings ==
    {SelectSeq(<<DirEntry(HiddenFile, h), DirEntry(OldFile, o), DirEntry(ToolFile, t)>>,
               LAMBDA e : e.kind # "absent") :
        h \in {"absent", "exec"}, o \in {"absent", "exec"},
        t \in {"absent", "exec", "plain", "dir"}}

\* An element of PATH: a directory with its listing, a directory that
\* cannot be read, or the empty string.
PathElements ==
    {[readable |-> TRUE, empty |-> FALSE, entries |-> l] : l \in Listings}
    \cup {[readable |-> FALSE, empty |-> FALSE, entries |-> <<>>],
          [readable |-> FALSE, empty |-> TRUE, entries |-> <<>>]}

MaxPathDirs == 2
DirNames == <<"/a", "/b", "/c">>

\* filepath.Match for a pattern of literal characters with an optional
\* final star.
GlobMatch(pattern, name) ==
    IF pattern # <<>> /\ pattern[Len(pattern)] = "*"
    THEN HasPrefix(name, SubSeq(pattern, 1, Len(pattern) - 1))
    ELSE pattern = name

\* isExcluded (part_003:33-50)
isExcluded(patterns, name) ==
    \E i \in DOMAIN patterns : GlobMatch(patterns[i], name) \/ patterns[i] = name

\* Scan's arguments and environment: the exclusion patterns, the commands
\* of the shell history, and PATH.
ScanInputs ==
    {[excluded |-> x, used |-> u, path |-> p] :
        x \in {<<>>, <<<<"o", "*">>>>},
        u \in {{ToolFile, HiddenFile, OldFile}, {HiddenFile, OldFile}},
        p \in UNION {[1..n -> PathElements] : n \in 0..MaxPathDirs}}

\* Scan, lines 86-89: a name seen once is never looked at again.
MarkSeen(seen, name) == seen \cup {name}

\* Scan, lines 91-136 in quick mode: the entry is added to the catalog.
Added(input, entry) ==
    /\ ~isExcluded(input.excluded, entry.name)
    /\ ~HasPrefix(entry.name, <<".">>)
    /\ entry.name \in input.used
    /\ entry.kind = "exec"

\* Scan, lines 79-137: the loop over the entries of one directory; st is
\* the seen set and the tools found so far (name -> path).
RECURSIVE ScanEntries(_, _, _, _)
ScanEntries(input, dir, entries, st) ==
    IF entries = <<>> THEN st
    ELSE IF Head(entries).kind = "dir" \/ Head(entries).name \in st.seen
    THEN ScanEntries(input, dir, Tail(entries), st)
    ELSE ScanEntries(input, dir, Tail(entries),
            [seen |-> MarkSeen(st.seen, Head(entries).name),
             tools |-> IF Added(input, Head(entries))
                       THEN st.tools \cup {<<Head(entries).name, <<dir, Head(entries).name>>>>}
                       ELSE st.tools])

\* Scan, lines 69-138: the loop over the elements of PATH from the i-th.
RECURSIVE ScanDirs(_, _, _)
ScanDirs(input, i, st) ==
    IF i > Len(input.path) THEN st
    ELSE IF input.path[i].empty \/ ~input.path[i].readable
    THEN ScanDirs(input, i + 1, st)
    ELSE ScanDirs(input, i + 1,
                  ScanEntries(input, DirNames[i], input.path[i].entries, st))

\* Scanner.Scan (part_003:52-141): the pairs <<name, path>> of catalog.Tools.
ScannerScan(input) == ScanDirs(input, 1, [seen |-> {}, tools |-> {}]).tools

ScannerInit ==
    /\ fnArg \in ScanInputs /\ fnRes = Nil
    /\ GenIdle /\ ParseIdle /\ HashIdle /\ ProbeIdle /\ ScanIdle /\ ManIdle /\ RunIdle /\ RcIdle

\* s.Scan(), lines 52-141.
ScanPath ==
    /\ fnRes = Nil
    /\ fnRes' = Some(ScannerScan(fnArg))
    /\ UNCHANGED fnArg
    /\ UNCHANGED nonFnVars

ScannerSpec == ScannerInit /\ [][ScanPath]_vars

\* ------------------------------------------------- scanner: properties
\* The PATH elements in which name is an executable regular file.
ExecutableIn(input, name) ==
    {i \in DOMAIN input.path :
        /\ input.path[i].readable
        /\ \E k \in DOMAIN input.path[i].entries :
              input.path[i].entries[k] = DirEntry(name, "exec")}

\* The least element of a non-empty set of numbers.
Least(S) == CHOOSE i \in S : \A j \in S : i <= j

\* A shell would look the name up: it is in the history, is not hidden and
\* not excluded, and is executable somewhere on PATH.
Resolvable(input, name) ==
    /\ name \in input.used
    /\ ~HasPrefix(name, <<".">>)
    /\ ~isExcluded(input.excluded, name)
    /\ ExecutableIn(input, name) # {}

\* C29: every name of the history that is not hidden, not excluded and
\* executable in some PATH directory is in the catalog, with the path of
\* the first PATH directory in which it is executable; a file of that name
\* without execute bit in an earlier directory does not hide it.
ScanResolvesLikeShell ==
    ~fnRes.nil
        => \A name \in {ToolFile, HiddenFile, OldFile} :
              Resolvable(fnArg, name)
                  => <<name, <<DirNames[Least(ExecutableIn(fnArg, name))], name>>>>
                       \in fnRes.val

\* The tool is executable in the second directory only, a plain file of
\* its name lies in the first, and the catalog does not hold it.
PlainFileHidesTool ==
    /\ ~fnRes.nil
    /\ Resolvable(fnArg, ToolFile)
    /\ ExecutableIn(fnArg, ToolFile) = {2}
    /\ \E k \in DOMAIN fnArg.path[1].entries :
          fnArg.path[1].entries[k] = DirEntry(ToolFile, "plain")
    /\ \A t \in fnRes.val : t[1] # ToolFile

\* ------------------------------------------------- shell rc file hooks
MaxUserLines == 2

HookMarker ==
    <<"#", " ", "T", "a", "b", "G", "e", "n", " ", "c", "o", "m", "p", "l",
      "e", "t", "i", "o", "n", "s">>

\* installShellHooks, lines 218-225, with the completion directory /b:
\*   
\*   # TabGen completions
\*   if [ -d "/b" ]; then
\*       for f in "/b"/*; do
\*           [ -f "$f" ] && source "$f"
\*       done
\*   fi
\*   
BashHook ==
    <<"\n", "#", " ", "T", "a", "b", "G", "e", "n", " ", "c", "o", "m", "p",
      "l", "e", "t", "i", "o", "n", "s", "\n", "i", "f", " ", "[", " ", "-",
      "d", " ", "\"", "/", "b", "\"", " ", "]", ";", " ", "t", "h", "e", "n",
      "\n", " ", " ", " ", " ", "f", "o", "r", " ", "f", " ", "i", "n", " ",
      "\"", "/", "b", "\"", "/", "*", ";", " ", "d", "o", "\n", " ", " ", " ",
      " ", " ", " ", " ", " ", "[", " ", "-", "f", " ", "\"", "$", "f", "\"",
      " ", "]", " ", "&", "&", " ", "s", "o", "u", "r", "c", "e", " ", "\"",
      "$", "f", "\"", "\n", " ", " ", " ", " ", "d", "o", "n", "e", "\n", "f",
      "i", "\n">>

\* installShellHooks, lines 235-241, with the completion directory /z:
\*   
\*   # TabGen completions
\*   if [ -d "/z" ]; then
\*       fpath=("/z" $fpath)
\*       autoload -Uz compinit && compinit -C
\*   fi
\*   
ZshHook ==
    <<"\n", "#", " ", "T", "a", "b", "G", "e", "n", " ", "c", "o", "m", "p",
      "l", "e", "t", "i", "o", "n", "s", "\n", "i", "f", " ", "[", " ", "-",
      "d", " ", "\"", "/", "z", "\"", " ", "]", ";", " ", "t", "h", "e", "n",
      "\n", " ", " ", " ", " ", "f", "p", "a", "t", "h", "=", "(", "\"", "/",
      "z", "\"", " ", "$", "f", "p", "a", "t", "h", ")", "\n", " ", " ", " ",
      " ", "a", "u", "t", "o", "l", "o", "a", "d", " ", "-", "U", "z", " ",
      "c", "o", "m", "p", "i", "n", "i", "t", " ", "&", "&", " ", "c", "o",
      "m", "p", "i", "n", "i", "t", " ", "-", "C", "\n", "f", "i", "\n">>

HookOf(shell) == IF shell = "bash" THEN BashHook ELSE ZshHook

\* The rc file before Install: missing or empty, ending with a newline,
\* ending without one.
OriginalContents ==
    {<<>>,
     <<"e", "x", "p", "o", "r", "t", " ", "A", "=", "1", "\n">>,
     <<"e", "x", "p", "o", "r", "t", " ", "A", "=", "1">>}

\* Lines a user appends to the file afterwards.
\*   'alias l=ls'
\*   'source ~/.al'
\*   ''
UserLines ==
    {<<"a", "l", "i", "a", "s", " ", "l", "=", "l", "s">>,
     <<"s", "o", "u", "r", "c", "e", " ", "~", "/", ".", "a", "l">>,
     <<>>}

RcInit ==
    /\ rcShell \in {"bash", "zsh"}
    /\ rcOriginal \in OriginalContents
    /\ rcContent = rcOriginal
    /\ rcUser = <<>>
    /\ rcPc = "fresh"
    /\ GenIdle /\ ParseIdle /\ HashIdle /\ ProbeIdle /\ FnIdle /\ ScanIdle /\ ManIdle /\ RunIdle

\* appendIfNotPresent (install.go:251-274): the file afterwards.
appendIfNotPresent(existing, content, marker) ==
    IF Contains(existing, marker) THEN existing ELSE existing \o content

\* installShellHooks (install.go:212-248) for the one rc file.
InstallHook ==
    /\ rcPc \in {"fresh", "installed"}
    /\ rcContent' = appendIfNotPresent(rcContent, HookOf(rcShell), HookMarker)
    /\ rcPc' = "installed"
    /\ UNCHANGED <<rcShell, rcOriginal, rcUser>>
    /\ UNCHANGED nonRcVars

\* The user adds a line at the end of the file.
UserAppend ==
    /\ rcPc = "installed"
    /\ Len(rcUser) < MaxUserLines
    /\ \E line \in UserLines :
        /\ rcContent' = rcContent \o line \o <<"\n">>
        /\ rcUser' = Append(rcUser, line)
    /\ UNCHANGED <<rcShell, rcOriginal, rcPc>>
    /\ UNCHANGED nonRcVars

\* bufio.Scanner with ScanLines: the lines of the text, without a final
\* empty one and without a carriage return at the end of a line.
TextLines(content) ==
    [i \in 1..(IF content = <<>> \/ content[Len(content)] = "\n"
               THEN Len(Split(content, <<"\n">>)) - 1
               ELSE Len(Split(content, <<"\n">>))) |->
        TrimSuffix(Split(content, <<"\n">>)[i], <<"\r">>)]

\* removeHookFromFile, lines 158-167: the line looks like one of the block.
BlockPrefixes ==
    {<<"i", "f">>, <<"f", "o", "r">>, <<"[">>, <<"f", "p", "a", "t", "h">>, <<"a", "u", "t", "o", "l", "o", "a", "d">>, <<"s", "o", "u", "r", "c", "e">>, <<"d", "o", "n", "e">>, <<"f", "i">>}

LooksLikeBlock(line) ==
    \/ \E p \in BlockPrefixes : HasPrefix(TrimSpace(line), p)
    \/ line = <<>>

\* removeHookFromFile, lines 147-172: the loop body for one line.
RemoveStep(st, line, marker) ==
    IF Contains(line, marker)
    THEN [st EXCEPT !.inBlock = TRUE, !.blockLines = 0]
    ELSE IF st.inBlock /\ st.blockLines + 1 <= 5 /\ LooksLikeBlock(line)
    THEN [st EXCEPT !.blockLines = @ + 1]
    ELSE [inBlock |-> FALSE,
          blockLines |-> IF st.inBlock THEN st.blockLines + 1 ELSE st.blockLines,
          result |-> Append(st.result, line)]

RECURSIVE RemoveLines(_, _, _)
RemoveLines(st, lines, marker) ==
    IF lines = <<>> THEN st
    ELSE RemoveLines(RemoveStep(st, Head(lines), marker), Tail(lines), marker)

\* removeHookFromFile (uninstall.go:129-180): the file afterwards.
removeHookFromFile(content, marker) ==
    IF ~Contains(content, marker) THEN content
    ELSE JoinWith(RemoveLines([inBlock |-> FALSE, blockLines |-> 0, result |-> <<>>],
                              TextLines(content), marker).result,
                  <<"\n">>)

\* removeShellHooks (uninstall.go:123-126) for the one rc file.
UninstallHook ==
    /\ rcPc \in {"fresh", "installed"}
    /\ rcContent' = removeHookFromFile(rcContent, HookMarker)
    /\ rcPc' = IF rcPc = "installed" THEN "removed" ELSE "untouched"
    /\ UNCHANGED <<rcShell, rcOriginal, rcUser>>
    /\ UNCHANGED nonRcVars

RcNext == InstallHook \/ UserAppend \/ UninstallHook

RcSpec == RcInit /\ [][RcNext]_vars

\* ------------------------------------------- shell rc file: properties
\* The lines of the file after Install and the user's additions.
InstalledLines ==
    TextLines(rcOriginal \o HookOf(rcShell)) \o rcUser

\* The number of the marker line, and the number of lines of the hook
\* from the marker on.
MarkerLine == Len(TextLines(rcOriginal \o <<"\n">>)) + 1
HookLines == Len(TextLines(HookOf(rcShell))) - 1

\* strings.Join(result, "\n") read back: the lines of the file written.
WrittenLines(content) == Split(content, <<"\n">>)

\* C30: after Install and the user's additions, Uninstall deletes the
\* marker line and the lines of the hook block and keeps every other line
\* of the file, in order; no line of the user after the block is deleted.
UninstallRemovesOnlyHook ==
    rcPc = "removed"
        => WrittenLines(rcContent) =
             SubSeq(InstalledLines, 1, MarkerLine - 1)
             \o SubSeq(InstalledLines, MarkerLine + HookLines, Len(InstalledLines))

\* A source line the user put right after the zsh hook is gone with it.
UserLineRemoved ==
    /\ rcPc = "removed"
    /\ rcShell = "zsh"
    /\ rcUser # <<>> /\ rcUser[1] # <<>>
    /\ \A i \in DOMAIN WrittenLines(rcContent) : WrittenLines(rcContent)[i] # rcUser[1]

\* With the bash hook both lines of the user are still in the file.
BashUserLinesKept ==
    /\ rcPc = "removed"
    /\ rcShell = "bash"
    /\ Len(rcUser) = MaxUserLines
    /\ UninstallRemovesOnlyHook
====
